---- MODULE Spec2Model ----
(***************************************************************************)
(* Smart Traffic Violation Detection System.                               *)
(*                                                                         *)
(* The repository holds several Streamlit scripts, each a program of its   *)
(* own with its own st.session_state:                                      *)
(*   app.py            real YOLOv5 pipeline, per-analysis `detections`     *)
(*   app_enhanced.py   YOLOv5 with a demo fallback, `detection_history`    *)
(*   app_guaranteed.py random generator only, `detection_history`          *)
(*   app_demo.py       random generator only, per-analysis `detections`    *)
(* A Streamlit script runs top to bottom once per user interaction, so     *)
(* every button handler is one atomic action on the session state.         *)
(*                                                                         *)
(* Spec      the four scripts; `app` says which one the server runs.       *)
(* SpecPure  the pure functions, applied to inputs drawn from bounded sets.*)
(*                                                                         *)
(* Floats are modelled as integer percents (0.90 -> 90, 200.0% -> 200).    *)
(***************************************************************************)
EXTENDS Integers, Sequences, FiniteSets, TLC

VARIABLES
    app,                \* which script the server runs
    MODEL_AVAILABLE,    \* app_enhanced: did the YOLOv5 imports succeed
    model_loaded,       \* detector.model_loaded (app.py, app_enhanced.py)
    detection_history,  \* st.session_state.detection_history
    detections,         \* st.session_state.detections
    analysis_complete,  \* st.session_state.analysis_complete
    messages,           \* st.error / st.success / ... of the last handler run
    clicked,            \* the button whose handler ran last
    origin,             \* history only: how each detection_history entry was made
    call,               \* SpecPure: the function applied and its arguments
    ret                 \* SpecPure: what it returned

vars == <<app, MODEL_AVAILABLE, model_loaded, detection_history, detections,
          analysis_complete, messages, clicked, origin, call, ret>>

appVars == <<app, MODEL_AVAILABLE, model_loaded, detection_history, detections,
             analysis_complete, messages, clicked, origin>>

(***************************************************************************)
(* Bounds of the model.                                                    *)
(***************************************************************************)
MaxUploads == 2      \* "Detect Violations" runs kept in one history
MaxBatches == 1      \* "Generate Sample Data" runs kept in one history
MaxTags == 2         \* SpecPure: length of a tag list given to calculate_fine
MaxSummary == 1      \* SpecPure: riders given to display_violation_summary
MaxCount == 4        \* SpecPure: app.py passenger_count

(***************************************************************************)
(* Generic helpers.                                                        *)
(***************************************************************************)
Range(s) == {s[i] : i \in 1..Len(s)}

RECURSIVE SumSeq(_)
SumSeq(s) == IF s = <<>> THEN 0 ELSE Head(s) + SumSeq(Tail(s))

SeqsUpTo(S, n) == UNION {[1..k -> S] : k \in 0..n}

IsPrefix(s, t) == Len(s) <= Len(t) /\ SubSeq(t, 1, Len(s)) = s

(***************************************************************************)
(* app_enhanced.py: TrafficViolationDetector, the pure part.               *)
(***************************************************************************)
\* ViolationList that returns the empty list for a clean rider.
ViolationList_EmptyWhenClean(has_helmet, triple, has_license_plate) ==
       (IF ~has_helmet THEN <<"No Helmet">> ELSE <<>>)
    \o (IF triple THEN <<"Triple Riding">> ELSE <<>>)
    \o (IF ~has_license_plate THEN <<"No License Plate">> ELSE <<>>)

\* analyze_rider_violations, lines 186-193: the list built from the three
\* simulated findings (triple = has_passengers and random.randint(2, 5) >= 3).
ViolationList(has_helmet, triple, has_license_plate) ==
    LET violations ==
            (IF ~has_helmet THEN <<"No Helmet">> ELSE <<>>)
         \o (IF triple THEN <<"Triple Riding">> ELSE <<>>)
         \o (IF ~has_license_plate THEN <<"No License Plate">> ELSE <<>>)
    IN  IF violations # <<>> THEN violations ELSE <<"No Violation">>

\* analyze_rider_violations: the three random.choice draws and the
\* random.randint(2, 5) draw are its inputs here.
analyze_rider_violations(has_helmet, has_passengers, n, has_license_plate) ==
    ViolationList(has_helmet, has_passengers /\ n >= 3, has_license_plate)

\* FineStep with the "No License Plate" branch priced as "No Helmet".
FineStep_WrongPrice(fine, violation) ==
    IF violation = "No Helmet" THEN fine + 500
    ELSE IF violation = "Triple Riding" THEN fine + 1000
    ELSE IF violation = "No License Plate" THEN fine + 500
    ELSE IF violation = "Red Light Jumping" THEN fine + 800
    ELSE fine

\* calculate_fine, one turn of its loop: a tag outside the four branches
\* falls through the elif chain and leaves fine as it is.
FineStep(fine, violation) ==
    IF violation = "No Helmet" THEN fine + 500
    ELSE IF violation = "Triple Riding" THEN fine + 1000
    ELSE IF violation = "No License Plate" THEN fine + 300
    ELSE IF violation = "Red Light Jumping" THEN fine + 800
    ELSE fine

RECURSIVE FineLoop(_, _)
FineLoop(fine, violations) ==
    IF violations = <<>> THEN fine
    ELSE FineLoop(FineStep(fine, Head(violations)), Tail(violations))

\* calculate_fine always returns: it has no raise and no call that can raise
\* on a list of strings.
calculate_fine(violations) == FineLoop(0, violations)

\* detect_violations, lines 155-163: the entry appended for one 'Rider' box.
RiderDetection(bbox, conf, violation_type) ==
    [bbox |-> bbox, class |-> "Rider", confidence |-> conf,
     violations |-> violation_type,
     fine_amount |-> calculate_fine(violation_type)]

\* format_results: the per-file result of a detection run. The timestamp
\* (datetime.now() in every script alike) is left out of the records.
format_results(dets, image_path) ==
    [filename |-> image_path,
     detections |-> dets,
     total_violations |->
         Cardinality({i \in 1..Len(dets) : dets[i].violations # <<"No Violation">>}),
     total_fines |-> SumSeq([i \in 1..Len(dets) |-> dets[i].fine_amount]),
     status |-> "Processed"]

\* generate_demo_result, lines 235-244: the fine added for one selected tag.
DemoFineStep(fine, violation) ==
    IF violation = "No Helmet" THEN fine + 500
    ELSE IF violation = "Triple Riding" THEN fine + 1000
    ELSE IF violation = "No License Plate" THEN fine + 300
    ELSE IF violation = "Red Light Jumping" THEN fine + 800
    ELSE fine

RECURSIVE DemoFineLoop(_, _)
DemoFineLoop(fine, selected) ==
    IF selected = <<>> THEN fine
    ELSE DemoFineLoop(DemoFineStep(fine, Head(selected)), Tail(selected))

\* The fixed box generate_demo_result gives its one detection.
DemoBox == <<100, 100, 200, 200>>

\* generate_demo_result. violate is random.random() < 0.6, selected is
\* random.sample(possible_violations, random.randint(1, 2)), conf is
\* random.uniform(0.8, 0.95).
generate_demo_result(filename, violate, selected, conf) ==
    LET violations == IF violate THEN selected ELSE <<"No Violation">>
        fine == IF violate THEN DemoFineLoop(0, selected) ELSE 0
    IN  [filename |-> filename,
         detections |-> << [bbox |-> DemoBox, class |-> "Rider",
                            confidence |-> conf, violations |-> violations,
                            fine_amount |-> fine] >>,
         total_violations |-> IF violations # <<"No Violation">> THEN 1 ELSE 0,
         total_fines |-> fine,
         status |-> "Processed"]

\* generate_sample_data: the table sample_violations.
sample_violations ==
    << [filename |-> "traffic_001.jpg", violations |-> 1, fine |-> 500,
        type |-> "No Helmet"],
       [filename |-> "traffic_002.jpg", violations |-> 2, fine |-> 1500,
        type |-> "No Helmet + Triple Riding"],
       [filename |-> "traffic_003.jpg", violations |-> 0, fine |-> 0,
        type |-> "No Violation"],
       [filename |-> "traffic_004.jpg", violations |-> 1, fine |-> 300,
        type |-> "No License Plate"],
       [filename |-> "traffic_005.jpg", violations |-> 1, fine |-> 800,
        type |-> "Red Light Jumping"] >>

\* generate_sample_data, lines 506-518: the result built from one table row
\* (its detection has no bbox). conf is random.uniform(0.85, 0.95).
SampleResult(sample, conf) ==
    [filename |-> sample.filename,
     detections |-> << [class |-> "Rider", confidence |-> conf,
                        violations |-> IF sample.type # "No Violation"
                                       THEN <<sample.type>>
                                       ELSE <<"No Violation">>,
                        fine_amount |-> sample.fine] >>,
     total_violations |-> sample.violations,
     total_fines |-> sample.fine,
     status |-> "Processed"]

(***************************************************************************)
(* app_enhanced.py: the detector's environment.                            *)
(*                                                                         *)
(* What the file system, the model and the random module answer during one *)
(* process_image call is one record e:                                     *)
(*   weights       os.path.exists(weights_path)                            *)
(*   load_raises   attempt_load raises                                     *)
(*   tmp_raises    writing the temporary file raises                       *)
(*   det_raises    LoadImages / the model / NMS raises                     *)
(*   frame         the boxes the model returns: [class, bbox, conf]        *)
(*   analysis      per box, the draws of analyze_rider_violations          *)
(*   unlink_raises os.unlink(temp_path) raises                             *)
(*   demo          the draws of generate_demo_result                       *)
(***************************************************************************)
OtherBox == <<40, 60, 120, 220>>

Frames ==
    { <<>>,
      << [class |-> "Rider", bbox |-> DemoBox, conf |-> 90] >>,
      << [class |-> "LP", bbox |-> OtherBox, conf |-> 50],
         [class |-> "Rider", bbox |-> OtherBox, conf |-> 50] >>,
      << [class |-> "Rider", bbox |-> DemoBox, conf |-> 90],
         [class |-> "Rider", bbox |-> OtherBox, conf |-> 50] >> }

\* <<has_helmet, has_passengers, random.randint(2, 5), has_license_plate>>
AnalysisDraws ==
    { <<TRUE, FALSE, 2, TRUE>>, <<FALSE, FALSE, 2, TRUE>>, <<FALSE, TRUE, 3, FALSE>> }

DemoDraws ==
    { [violate |-> FALSE, selected |-> <<"No Helmet">>, conf |-> 90],
      [violate |-> TRUE, selected |-> <<"No Helmet">>, conf |-> 90],
      [violate |-> TRUE, selected |-> <<"Red Light Jumping", "Triple Riding">>,
       conf |-> 90] }

CalmEnv ==
    [weights |-> TRUE, load_raises |-> FALSE, tmp_raises |-> FALSE,
     det_raises |-> FALSE, frame |-> <<>>, analysis |-> <<>>,
     unlink_raises |-> FALSE,
     demo |-> [violate |-> FALSE, selected |-> <<"No Helmet">>, conf |-> 90]]

EnvDraws ==
    \* everything works
    { [CalmEnv EXCEPT !.frame = f, !.analysis = a] :
        f \in Frames, a \in [1..2 -> AnalysisDraws] }
    \* one step fails
    \cup { [CalmEnv EXCEPT !.weights = FALSE, !.demo = d] : d \in DemoDraws }
    \cup { [CalmEnv EXCEPT !.load_raises = TRUE, !.demo = d] : d \in DemoDraws }
    \cup { [CalmEnv EXCEPT !.tmp_raises = TRUE, !.demo = d] : d \in DemoDraws }
    \cup { [CalmEnv EXCEPT !.det_raises = TRUE, !.demo = d] : d \in DemoDraws }
    \cup { [CalmEnv EXCEPT !.unlink_raises = TRUE, !.demo = d, !.frame = f,
                           !.analysis = a] :
             d \in DemoDraws, f \in Frames,
             a \in [1..2 -> {<<FALSE, FALSE, 2, TRUE>>}] }

\* The uploaded file's name, and the basename of the temporary copy.
FileNames == {"scene.jpg"}
TempName == "tmp.jpg"

Msg(level, what) == [level |-> level, what |-> what]

\* load_model: [ok, loaded, msgs]
load_model(e) ==
    IF e.weights
    THEN IF e.load_raises
         THEN [ok |-> FALSE, loaded |-> FALSE,
               msgs |-> <<Msg("error", "Failed to load model")>>]
         ELSE [ok |-> TRUE, loaded |-> TRUE, msgs |-> <<>>]
    ELSE [ok |-> FALSE, loaded |-> FALSE,
          msgs |-> <<Msg("warning", "Model weights not found")>>]

\* detect_violations, lines 146-163: the loop over the boxes of the frame.
RECURSIVE DetectLoop(_, _)
DetectLoop(frame, analysis) ==
    IF frame = <<>> THEN <<>>
    ELSE LET det == Head(frame)
             a == Head(analysis)
         IN  (IF det.class = "Rider"
              THEN << RiderDetection(det.bbox, det.conf,
                          analyze_rider_violations(a[1], a[2], a[3], a[4])) >>
              ELSE <<>>)
             \o DetectLoop(Tail(frame), Tail(analysis))

DemoOf(filename, e) ==
    generate_demo_result(filename, e.demo.violate, e.demo.selected, e.demo.conf)

\* detect_violations: [result, msgs, how]; how says which branch built the
\* result and is not part of it.
detect_violations(image_path, e) ==
    IF e.det_raises
    THEN [result |-> DemoOf(image_path, e),
          msgs |-> <<Msg("error", "Detection error")>>, how |-> "demo"]
    ELSE [result |-> format_results(DetectLoop(e.frame, e.analysis), image_path),
          msgs |-> <<>>, how |-> "detected"]

\* process_image: [result, loaded, msgs, how]
process_image(available, loaded, name, e) ==
    IF ~available
    THEN [result |-> DemoOf(name, e), loaded |-> loaded, msgs |-> <<>>,
          how |-> "demo"]
    ELSE LET lm == IF loaded THEN [ok |-> TRUE, loaded |-> TRUE, msgs |-> <<>>]
                   ELSE load_model(e)
         IN  IF ~lm.ok
             THEN [result |-> DemoOf(name, e), loaded |-> lm.loaded,
                   msgs |-> lm.msgs, how |-> "demo"]
             ELSE IF e.tmp_raises
             THEN [result |-> DemoOf(name, e), loaded |-> lm.loaded,
                   msgs |-> lm.msgs \o <<Msg("error", "Error processing image")>>,
                   how |-> "demo"]
             ELSE LET dv == detect_violations(TempName, e)
                  IN  IF e.unlink_raises
                      THEN [result |-> DemoOf(name, e), loaded |-> lm.loaded,
                            msgs |-> lm.msgs \o dv.msgs
                                     \o <<Msg("error", "Error processing image")>>,
                            how |-> "demo"]
                      ELSE [result |-> dv.result, loaded |-> lm.loaded,
                            msgs |-> lm.msgs \o dv.msgs, how |-> dv.how]

\* process_uploaded_file, lines 487-490: the message after the append.
ResultMsg(result) ==
    IF result.total_violations > 0
    THEN [level |-> "error", what |-> "violations detected",
          n |-> result.total_violations, fine |-> result.total_fines]
    ELSE Msg("success", "No violations detected")

Count(s, x) == Cardinality({i \in 1..Len(s) : s[i] = x})

\* AppendResult putting the newest result first.
AppendResult_Prepend(history, result) == <<result>> \o history

\* The append of process_uploaded_file (app_enhanced.py line 485,
\* app_guaranteed.py line 107).
AppendResult(history, result) == Append(history, result)

\* app_enhanced.py process_uploaded_file: the "Detect Violations" button.
EnhancedDetect ==
    /\ app = "enhanced"
    /\ Len(origin) - Count(origin, "sample") < MaxUploads
    /\ \E name \in FileNames, e \in EnvDraws :
         LET p == process_image(MODEL_AVAILABLE, model_loaded, name, e)
         IN  /\ detection_history' = AppendResult(detection_history, p.result)
             /\ model_loaded' = p.loaded
             /\ messages' = p.msgs \o <<ResultMsg(p.result)>>
             /\ origin' = Append(origin, p.how)
    /\ clicked' = "detect"
    /\ UNCHANGED <<app, MODEL_AVAILABLE, detections, analysis_complete, call, ret>>

RECURSIVE SampleLoop(_, _)
SampleLoop(history, samples) ==
    IF samples = <<>> THEN history
    ELSE SampleLoop(Append(history, SampleResult(Head(samples), 90)), Tail(samples))

\* app_enhanced.py generate_sample_data
generate_sample_data(history) == SampleLoop(history, sample_violations)

\* The "Generate Sample Data" button of app_enhanced.py.
EnhancedSample ==
    /\ app = "enhanced"
    /\ Count(origin, "sample") < MaxBatches * Len(sample_violations)
    /\ detection_history' = generate_sample_data(detection_history)
    /\ origin' = origin \o [i \in 1..Len(sample_violations) |-> "sample"]
    /\ messages' = <<>>
    /\ clicked' = "sample"
    /\ UNCHANGED <<app, MODEL_AVAILABLE, model_loaded, detections,
                   analysis_complete, call, ret>>

\* The "Clear History" button of app_enhanced.py.
EnhancedClear ==
    /\ app = "enhanced"
    /\ detection_history' = <<>>
    /\ origin' = <<>>
    /\ messages' = <<Msg("success", "Detection history cleared!")>>
    /\ clicked' = "clear"
    /\ UNCHANGED <<app, MODEL_AVAILABLE, model_loaded, detections,
                   analysis_complete, call, ret>>

\* EnhancedStats that shows a rate of 100% while nothing is processed.
EnhancedStats_FullRateWhenEmpty(history) ==
    LET total_processed == Len(history)
        total_violations ==
            SumSeq([i \in 1..Len(history) |-> history[i].total_violations])
        total_fines == SumSeq([i \in 1..Len(history) |-> history[i].total_fines])
    IN  [total_processed |-> total_processed,
         total_violations |-> total_violations,
         total_fines |-> total_fines,
         violation_rate |-> IF total_processed > 0
                            THEN [num |-> total_violations * 100,
                                  den |-> total_processed]
                            ELSE [num |-> 100, den |-> 1]]

\* display_dashboard, lines 424-427. A rate is the fraction num/den.
EnhancedStats(history) ==
    LET total_processed == Len(history)
        total_violations ==
            SumSeq([i \in 1..Len(history) |-> history[i].total_violations])
        total_fines == SumSeq([i \in 1..Len(history) |-> history[i].total_fines])
    IN  [total_processed |-> total_processed,
         total_violations |-> total_violations,
         total_fines |-> total_fines,
         violation_rate |-> IF total_processed > 0
                            THEN [num |-> total_violations * 100,
                                  den |-> total_processed]
                            ELSE [num |-> 0, den |-> 1]]

(***************************************************************************)
(* app_guaranteed.py                                                       *)
(***************************************************************************)
\* generate_violation_detection: the table violation_options (name, fine).
violation_options ==
    << <<"No Helmet", 500>>, <<"Triple Riding", 1000>>,
       <<"No License Plate", 300>>, <<"Red Light Jumping", 800>>,
       <<"No Violation", 0>> >>

\* lines 64-66: the loop over the sampled options.
RECURSIVE OptionLoop(_, _)
OptionLoop(acc, selected) ==
    IF selected = <<>> THEN acc
    ELSE LET option == Head(selected)
         IN  OptionLoop([violations |-> Append(acc.violations, option[1]),
                         fine_amount |-> acc.fine_amount + option[2]],
                        Tail(selected))

\* generate_violation_detection. d.violate is random.random() < 0.6,
\* d.selected the random.sample of the options other than "No Violation"
\* (as indices into violation_options); the remaining draws are the fields
\* of the same names.
generate_violation_detection(file_name, d) ==
    LET acc == IF d.violate
               THEN OptionLoop([violations |-> <<>>, fine_amount |-> 0],
                               [i \in 1..Len(d.selected) |->
                                    violation_options[d.selected[i]]])
               ELSE [violations |-> <<"No Violation">>, fine_amount |-> 0]
    IN  [filename |-> file_name,
         violations |-> acc.violations,
         fine_amount |-> acc.fine_amount,
         confidence |-> d.confidence,
         vehicle_type |-> d.vehicle_type,
         location |-> d.location,
         officer_id |-> d.officer_id]

GDraw(violate, selected) ==
    [violate |-> violate, selected |-> selected, confidence |-> 90,
     vehicle_type |-> "Scooter", location |-> "Traffic Point 7",
     officer_id |-> "OFF123"]

GuaranteedDraws ==
    { GDraw(FALSE, <<1>>), GDraw(TRUE, <<1>>), GDraw(TRUE, <<2>>),
      GDraw(TRUE, <<3>>), GDraw(TRUE, <<4>>), GDraw(TRUE, <<1, 2>>),
      GDraw(TRUE, <<4, 3>>), GDraw(TRUE, <<2, 1>>) }

sample_files ==
    << "traffic_scene_001.jpg", "intersection_002.mp4", "highway_003.jpg",
       "city_traffic_004.mp4", "road_violation_005.jpg" >>

\* The draws of one "Generate Sample Data" run, one per sample file.
GuaranteedBatches ==
    { [i \in 1..5 |-> GDraw(FALSE, <<1>>)],
      << GDraw(TRUE, <<1>>), GDraw(TRUE, <<1, 2>>), GDraw(FALSE, <<1>>),
         GDraw(TRUE, <<3>>), GDraw(TRUE, <<4>>) >>,
      [i \in 1..5 |-> GDraw(TRUE, <<2, 4>>)] }

\* lines 109-113: the message after the append.
GuaranteedMsg(result) ==
    LET violations_count ==
            Cardinality({i \in 1..Len(result.violations) :
                            result.violations[i] # "No Violation"})
    IN  IF violations_count > 0
        THEN [level |-> "error", what |-> "violations detected",
              n |-> violations_count, fine |-> result.fine_amount]
        ELSE Msg("success", "No violations found")

\* The "Detect Violations" button of app_guaranteed.py, lines 100-113.
GuaranteedDetect ==
    /\ app = "guaranteed"
    /\ Len(origin) - Count(origin, "sample") < MaxUploads
    /\ \E name \in FileNames, d \in GuaranteedDraws :
         LET result == generate_violation_detection(name, d)
         IN  /\ detection_history' = AppendResult(detection_history, result)
             /\ messages' = <<GuaranteedMsg(result)>>
    /\ origin' = Append(origin, "demo")
    /\ clicked' = "detect"
    /\ UNCHANGED <<app, MODEL_AVAILABLE, model_loaded, detections,
                   analysis_complete, call, ret>>

RECURSIVE GuaranteedSampleLoop(_, _, _)
GuaranteedSampleLoop(history, files, draws) ==
    IF files = <<>> THEN history
    ELSE GuaranteedSampleLoop(
             Append(history, generate_violation_detection(Head(files), Head(draws))),
             Tail(files), Tail(draws))

\* The "Generate Sample Data" button of app_guaranteed.py, lines 119-132.
GuaranteedSample ==
    /\ app = "guaranteed"
    /\ Count(origin, "sample") < MaxBatches * Len(sample_files)
    /\ \E draws \in GuaranteedBatches :
         detection_history' =
             GuaranteedSampleLoop(detection_history, sample_files, draws)
    /\ origin' = origin \o [i \in 1..Len(sample_files) |-> "sample"]
    /\ messages' = <<Msg("success", "Generated 5 sample detections!")>>
    /\ clicked' = "sample"
    /\ UNCHANGED <<app, MODEL_AVAILABLE, model_loaded, detections,
                   analysis_complete, call, ret>>

\* The "Clear All Data" button of app_guaranteed.py, lines 134-136.
GuaranteedClear ==
    /\ app = "guaranteed"
    /\ detection_history' = <<>>
    /\ origin' = <<>>
    /\ messages' = <<Msg("info", "All detection history cleared.")>>
    /\ clicked' = "clear"
    /\ UNCHANGED <<app, MODEL_AVAILABLE, model_loaded, detections,
                   analysis_complete, call, ret>>

\* len([v for v in r['violations'] if v != "No Violation"])
RealTags(r) ==
    Cardinality({i \in 1..Len(r.violations) : r.violations[i] # "No Violation"})

\* The dashboard of app_guaranteed.py, lines 228-231 (the sidebar statistics,
\* lines 140-147, compute the same numbers).
GuaranteedStats(history) ==
    LET total == Len(history)
        violations == SumSeq([i \in 1..Len(history) |-> RealTags(history[i])])
        fines == SumSeq([i \in 1..Len(history) |-> history[i].fine_amount])
    IN  [total_processed |-> total,
         total_violations |-> violations,
         total_fines |-> fines,
         violation_rate |-> IF total > 0
                            THEN [num |-> violations * 100, den |-> total]
                            ELSE [num |-> 0, den |-> 1]]

(***************************************************************************)
(* app_demo.py                                                             *)
(***************************************************************************)
\* ', '.join(violations)
RECURSIVE Join(_, _)
Join(sep, list) ==
    IF list = <<>> THEN ""
    ELSE IF Len(list) = 1 THEN Head(list)
    ELSE Head(list) \o sep \o Join(sep, Tail(list))

\* f'{n:03d}' for the ids generate_sample_detections can give (n <= 15)
Pad3(n) == IF n < 10 THEN "00" \o ToString(n) ELSE "0" \o ToString(n)

\* DemoViolations with the plate test lp_status == 'Not Visible', which lets
\* 'Not Found' pass.
DemoViolations_OnlyNotVisible(helmet_status, lp_status, passengers) ==
       (IF helmet_status = "Not Wearing" THEN <<"Helmet Violation">> ELSE <<>>)
    \o (IF lp_status = "Not Visible" THEN <<"License Plate Issue">> ELSE <<>>)
    \o (IF passengers >= 3 THEN <<"Triple Driving">> ELSE <<>>)

\* generate_sample_detections, lines 76-83: the violations of one row.
DemoViolations(helmet_status, lp_status, passengers) ==
       (IF helmet_status = "Not Wearing" THEN <<"Helmet Violation">> ELSE <<>>)
    \o (IF lp_status # "Visible" THEN <<"License Plate Issue">> ELSE <<>>)
    \o (IF passengers >= 3 THEN <<"Triple Driving">> ELSE <<>>)

\* generate_sample_detections, lines 72-94: row i (from 0) of the sample.
\* d holds the row's draws: helmet_status, lp_status, passengers, and the
\* random.randint(500, 2000) fine and random.choice status.
SampleRow(i, d) ==
    LET violations == DemoViolations(d.helmet_status, d.lp_status, d.passengers)
    IN  [ID |-> "DET_" \o Pad3(i + 1),
         HelmetStatus |-> d.helmet_status,
         LicensePlateStatus |-> d.lp_status,
         PassengerCount |-> d.passengers,
         Violations |-> IF violations # <<>> THEN Join(", ", violations)
                        ELSE "No Violations",
         FineAmount |-> d.fine,
         Status |-> d.status]

generate_sample_detections(draws) ==
    [k \in 1..Len(draws) |-> SampleRow(k - 1, draws[k])]

\* The draws of a row, enumerated: every helmet_status, lp_status and
\* passengers value of lines 72-74, with fines from random.randint(500, 2000).
RowDraw(k) ==
    [helmet_status |-> <<"Wearing", "Not Wearing", "Not Found">>[(k % 3) + 1],
     lp_status |-> <<"Visible", "Not Visible", "Not Found">>[((k \div 3) % 3) + 1],
     passengers |-> 1 + ((k \div 9) % 4),
     fine |-> <<500, 1234, 2000>>[((k \div 2) % 3) + 1],
     status |-> <<"Pending", "Processed", "Challan Sent">>[((k \div 5) % 3) + 1]]

\* The draws of one generate_sample_detections call: random.randint(5, 15)
\* rows, which are consecutive entries of the enumeration from a drawn start
\* (the starts are spaced so that the batches cover the whole enumeration).
DemoBatches ==
    { [i \in 1..n |-> RowDraw((start + i) % 36)] :
        n \in 5..15, start \in {0, 7, 14, 21, 28} }

\* process_uploaded_file_demo: the "Start Detection" button of app_demo.py.
DemoDetect ==
    /\ app = "demo"
    /\ \E name \in FileNames, draws \in DemoBatches :
         /\ detections' = generate_sample_detections(draws)
         /\ messages' = << [level |-> "success", what |-> "uploaded", name |-> name],
                           [level |-> "success", what |-> "Analysis completed!",
                            n |-> Len(draws)] >>
    /\ analysis_complete' = TRUE
    /\ clicked' = "detect"
    /\ UNCHANGED <<app, MODEL_AVAILABLE, model_loaded, detection_history, origin,
                   call, ret>>

\* The "Generate Sample Data" button of app_demo.py, lines 134-138.
DemoSample ==
    /\ app = "demo"
    /\ \E draws \in DemoBatches :
         detections' = generate_sample_detections(draws)
    /\ analysis_complete' = TRUE
    /\ messages' = <<Msg("success", "Sample data generated!")>>
    /\ clicked' = "sample"
    /\ UNCHANGED <<app, MODEL_AVAILABLE, model_loaded, detection_history, origin,
                   call, ret>>

\* The "Reset Data" button of app_demo.py, lines 140-143.
DemoReset ==
    /\ app = "demo"
    /\ detections' = <<>>
    /\ analysis_complete' = FALSE
    /\ messages' = <<Msg("info", "Data reset completed.")>>
    /\ clicked' = "clear"
    /\ UNCHANGED <<app, MODEL_AVAILABLE, model_loaded, detection_history, origin,
                   call, ret>>

(***************************************************************************)
(* app.py                                                                  *)
(***************************************************************************)
Return(value) == [kind |-> "return", value |-> value]

\* Python values where the code tells None from a tuple.
PyNone == [py |-> "None"]
PyTuple(items) == [py |-> "tuple", items |-> items]

\* The rider records process_image collects in its local list `detections`.
AppRiders ==
    { <<>>,
      << [bbox |-> OtherBox, helmet_status |-> "False", lp_status |-> "None",
          lp_number |-> "None", passenger_count |-> 3, confidence |-> 50] >> }

\* TrafficDetector.process_image of app.py: what it returns and the messages
\* it shows. raises: an exception inside its try block.
AppProcessImage(loaded, raises, riders) ==
    IF ~loaded
    THEN [value |-> PyTuple(<<PyNone, PyNone, PyNone, PyNone>>), msgs |-> <<>>]
    ELSE IF raises
    THEN [value |-> PyTuple(<<PyNone, PyNone, PyNone>>),
          msgs |-> <<Msg("error", "Error processing image")>>]
    ELSE [value |-> PyTuple(<<[py |-> "image"], [py |-> "list", items |-> <<>>],
                              [py |-> "list", items |-> riders]>>),
          msgs |-> <<>>]

UploadTypes == {"image/jpeg", "video/mp4"}

\* uploaded_file.type.startswith(prefix), for the types the uploader admits
TypeStartsWith(type, prefix) ==
    \/ prefix = "image/" /\ type \in {"image/jpeg", "image/png"}
    \/ prefix = "video/" /\ type \in {"video/mp4", "video/avi", "video/quicktime"}

\* TrafficDetector.load_model of app.py: [ok, msgs]. weights is
\* os.path.exists(weights_path), raises an exception while loading.
app_load_model(weights, raises) ==
    IF ~weights
    THEN [ok |-> FALSE, msgs |-> <<Msg("error", "Model weights not found")>>]
    ELSE IF raises
    THEN [ok |-> FALSE, msgs |-> <<Msg("error", "Failed to load model")>>]
    ELSE [ok |-> TRUE, msgs |-> <<>>]

\* The "Load Detection Model" button of app.py, lines 269-274.
AppLoadModel ==
    /\ app = "app"
    /\ \E weights \in BOOLEAN, raises \in BOOLEAN :
         LET lm == app_load_model(weights, raises)
         IN  /\ model_loaded' = (model_loaded \/ lm.ok)
             /\ messages' = lm.msgs \o
                    (IF lm.ok
                     THEN <<Msg("success", "Model loaded successfully!")>>
                     ELSE <<Msg("error", "Failed to load model")>>)
    /\ clicked' = "load"
    /\ UNCHANGED <<app, MODEL_AVAILABLE, detection_history, detections,
                   analysis_complete, origin, call, ret>>

\* process_uploaded_file of app.py: the "Start Detection" button. ret keeps
\* what the call of process_image in line 320 returned (the local `image`),
\* and is pending again when process_image is not called.
AppDetect ==
    /\ app = "app"
    /\ \E type \in UploadTypes, raises \in BOOLEAN, riders \in AppRiders :
         /\ detections' = <<>>
         /\ IF TypeStartsWith(type, "image/")
            THEN LET image == AppProcessImage(model_loaded, raises, riders)
                 IN  /\ ret' = Return(image.value)
                     /\ IF image.value # PyNone
                        THEN /\ analysis_complete' = TRUE
                             /\ messages' = image.msgs
                                   \o <<Msg("success", "Image analysis completed!")>>
                        ELSE /\ analysis_complete' = FALSE
                             /\ messages' = image.msgs
                                   \o <<Msg("error", "Failed to process image")>>
            ELSE IF TypeStartsWith(type, "video/")
            THEN /\ analysis_complete' = FALSE
                 /\ messages' = <<Msg("info", "Video processing is not implemented")>>
                 /\ ret' = [kind |-> "pending"]
            ELSE /\ analysis_complete' = FALSE
                 /\ messages' = <<>>
                 /\ ret' = [kind |-> "pending"]
    /\ clicked' = "detect"
    /\ UNCHANGED <<app, MODEL_AVAILABLE, model_loaded, detection_history, origin,
                   call>>

(***************************************************************************)
(* The scripts as one system: the server runs one of them.                 *)
(***************************************************************************)
Apps == {"app", "enhanced", "guaranteed", "demo"}

NoCall == [fn |-> "none"]
Pending == [kind |-> "pending"]

Init ==
    /\ app \in Apps
    /\ MODEL_AVAILABLE \in (IF app = "enhanced" THEN BOOLEAN ELSE {TRUE})
    /\ model_loaded = FALSE
    /\ detection_history = <<>>
    /\ detections = <<>>
    /\ analysis_complete = FALSE
    /\ messages = <<>>
    /\ clicked = "none"
    /\ origin = <<>>
    /\ call = NoCall
    /\ ret = Pending

Next ==
    \/ EnhancedDetect
    \/ EnhancedSample
    \/ EnhancedClear
    \/ GuaranteedDetect
    \/ GuaranteedSample
    \/ GuaranteedClear
    \/ DemoDetect
    \/ DemoSample
    \/ DemoReset
    \/ AppLoadModel
    \/ AppDetect

Spec == Init /\ [][Next]_vars

(***************************************************************************)
(* app.py: display_violation_summary, lines 353-361.                       *)
(***************************************************************************)
display_violation_summary(dets) ==
    IF dets = <<>>
    THEN [shown |-> "No violations detected."]
    ELSE [shown |-> "metrics",
          total_riders |-> Len(dets),
          helmet_violations |->
              Cardinality({i \in 1..Len(dets) : dets[i].helmet_status = "False"}),
          lp_violations |->
              Cardinality({i \in 1..Len(dets) : dets[i].lp_status # "True"}),
          passenger_violations |->
              Cardinality({i \in 1..Len(dets) : dets[i].passenger_count >= 3})]

(***************************************************************************)
(* Region extraction: the margin-expanded, clamped box each script crops.  *)
(* An image is its shape [height, width]; a crop is the slice the code     *)
(* takes and the number of rows and columns numpy gives for it.            *)
(***************************************************************************)
Max(a, b) == IF a >= b THEN a ELSE b
Min(a, b) == IF a <= b THEN a ELSE b

\* numpy basic slicing a[start:stop] on an axis of length n: a negative
\* index counts from the end, both ends are then clipped to 0..n, and the
\* slice is empty when start >= stop. The value is the number of items.
SliceLen(start, stop, n) ==
    LET from == IF start < 0 THEN Max(0, start + n) ELSE Min(start, n)
        to == IF stop < 0 THEN Max(0, stop + n) ELSE Min(stop, n)
    IN  Max(0, to - from)

\* im0s[max(0, y1):min(im0s.shape[0], y2), max(0, x1):min(im0s.shape[1], x2)]
\* with x1, y1, x2, y2 the box widened by margin (app.py 164-166, 235-237).
ClampedSlice(shape, xyxy, margin) ==
    LET x1 == xyxy[1] - margin
        y1 == xyxy[2] - margin
        x2 == xyxy[3] + margin
        y2 == xyxy[4] + margin
        sy1 == Max(0, y1)
        sy2 == Min(shape.height, y2)
        sx1 == Max(0, x1)
        sx2 == Min(shape.width, x2)
    IN  [x1 |-> sx1, y1 |-> sy1, x2 |-> sx2, y2 |-> sy2,
         rows |-> SliceLen(sy1, sy2, shape.height),
         cols |-> SliceLen(sx1, sx2, shape.width)]

\* process_image of app.py, lines 164-186, up to the call of analyze_rider:
\* cv2.imwrite raises on an empty image, the except of line 185 reports it.
RiderRoi(shape, xyxy) ==
    LET roi == ClampedSlice(shape, xyxy, 10)
    IN  [roi |-> roi,
         outcome |-> IF roi.rows = 0 \/ roi.cols = 0
                     THEN "Error processing rider region"
                     ELSE "analysed"]

\* analyze_rider of app.py, lines 235-244, up to the recognizer call: the
\* bare except of line 243 turns the cv2.imwrite error into the sentinel.
PlateRoi(shape, xyxy) ==
    LET roi == ClampedSlice(shape, xyxy, 50)
    IN  [roi |-> roi,
         outcome |-> IF roi.rows = 0 \/ roi.cols = 0
                     THEN "Detection failed"
                     ELSE "analysed"]

\* analyze_rider_violations of app_enhanced.py, lines 176-178: the crop is
\* taken and never looked at; the simulated analysis follows whatever it is.
EnhancedRoi(shape, xyxy) ==
    LET x1 == Max(0, xyxy[1] - 20)
        y1 == Max(0, xyxy[2] - 20)
        x2 == Min(shape.width, xyxy[3] + 20)
        y2 == Min(shape.height, xyxy[4] + 20)
    IN  [roi |-> [x1 |-> x1, y1 |-> y1, x2 |-> x2, y2 |-> y2,
                  rows |-> SliceLen(y1, y2, shape.height),
                  cols |-> SliceLen(x1, x2, shape.width)],
         outcome |-> "analysed"]

\* The image and the box corners the crops are tried on: corners inside,
\* on the border, and outside the image on both sides.
ImageShape == [height |-> 48, width |-> 64]
CropCoords == {-60, 0, 20, 48, 64, 150}
CropBoxes ==
    { <<x1, y1, x2, y2>> : x1 \in CropCoords, y1 \in CropCoords,
                           x2 \in CropCoords, y2 \in CropCoords }

(***************************************************************************)
(* The per-type breakdown of the dashboards. A Python dict is a function   *)
(* on the set of its keys.                                                 *)
(***************************************************************************)
EmptyDict == [k \in {} |-> 0]

\* d.get(k, default)
DictGet(d, k, default) == IF k \in DOMAIN d THEN d[k] ELSE default

\* d[k] = v
DictSet(d, k, v) == (k :> v) @@ d

\* CountStep without the test against the marker.
CountStep_CountsMarker(violation_counts, violation, marker) ==
    DictSet(violation_counts, violation, DictGet(violation_counts, violation, 0) + 1)

\* One turn of the counting loops (app_guaranteed.py 244-245,
\* app_enhanced.py 454-455, app_demo.py 276-277).
CountStep(violation_counts, violation, marker) ==
    IF violation # marker
    THEN DictSet(violation_counts, violation,
                 DictGet(violation_counts, violation, 0) + 1)
    ELSE violation_counts

\* The turns of a counting loop: turn holds the dict so far and the tags
\* still to come.
RECURSIVE CountTurns(_, _)
CountTurns(turn, marker) ==
    IF turn.rest = <<>> THEN turn.counts
    ELSE CountTurns([counts |-> CountStep(turn.counts, Head(turn.rest), marker),
                     rest |-> Tail(turn.rest)], marker)

CountLoop(violation_counts, violations, marker) ==
    CountTurns([counts |-> violation_counts, rest |-> violations], marker)

\* app_guaranteed.py, lines 241-245 (inside the test of line 226).
RECURSIVE GuaranteedTurns(_)
GuaranteedTurns(turn) ==
    IF turn.rest = <<>> THEN turn.counts
    ELSE GuaranteedTurns(
             [counts |-> CountLoop(turn.counts, Head(turn.rest).violations,
                                   "No Violation"),
              rest |-> Tail(turn.rest)])

GuaranteedBreakdown(history) ==
    GuaranteedTurns([counts |-> EmptyDict, rest |-> history])

\* app_enhanced.py, lines 446-449: violation_types after the two loops.
RECURSIVE ExtendAll(_)
ExtendAll(dets) ==
    IF dets = <<>> THEN <<>>
    ELSE Head(dets).violations \o ExtendAll(Tail(dets))

RECURSIVE violation_types(_)
violation_types(history) ==
    IF history = <<>> THEN <<>>
    ELSE ExtendAll(Head(history).detections) \o violation_types(Tail(history))

\* app_enhanced.py display_dashboard, lines 420-455: no chart for an empty
\* history (line 420) nor when total_violations is 0 (line 441).
EnhancedBreakdown(history) ==
    IF history = <<>> THEN EmptyDict
    ELSE IF EnhancedStats(history).total_violations > 0
    THEN CountLoop(EmptyDict, violation_types(history), "No Violation")
    ELSE EmptyDict

\* The pieces a 'Violations' string of app_demo.py is made of; none of them
\* contains the separator ', '.
DemoPieces ==
    {"Helmet Violation", "License Plate Issue", "Triple Driving", "No Violations"}

\* violations.split(', '): the separator-free pieces, in order, whose join
\* by the separator is the string (at least one piece, as str.split gives).
split(string, sep) ==
    CHOOSE pieces \in SeqsUpTo(DemoPieces, 3) :
        pieces # <<>> /\ Join(sep, pieces) = string

\* app_demo.py display_dashboard, lines 273-277.
RECURSIVE DemoTurns(_)
DemoTurns(turn) ==
    IF turn.rest = <<>> THEN turn.counts
    ELSE DemoTurns(
             [counts |-> CountLoop(turn.counts,
                                   split(Head(turn.rest).Violations, ", "),
                                   "No Violations"),
              rest |-> Tail(turn.rest)])

DemoBreakdown(rows) == DemoTurns([counts |-> EmptyDict, rest |-> rows])

(***************************************************************************)
(* Timestamps, the per-date charts and the CSV report.                     *)
(*                                                                         *)
(* A text that the code cuts or joins is a sequence of pieces, cut where   *)
(* a separator is or can be: "2026-11-05 23:59:59" is the three pieces     *)
(* <<"2026-11-05", " ", "23:59:59">>.                                      *)
(***************************************************************************)
MaxReport == 2       \* SpecPure: records in a history given to the report

\* datetime.now() on successive calls: the clock never runs backwards.
Clock ==
    << [date |-> "2026-11-05", time |-> "23:59:59"],
       [date |-> "2026-11-06", time |-> "00:00:00"],
       [date |-> "2026-11-06", time |-> "00:00:01"] >>

\* now.strftime('%Y-%m-%d %H:%M:%S')
strftime(now) == <<now.date, " ", now.time>>

\* The dict with one more entry, key: datetime.now().strftime(...) (the
\* 'timestamp' of app_enhanced.py 211, 250, 508 and app_guaranteed.py 72,
\* the 'Timestamp' of app_demo.py 87).
Stamp(record, key, now) ==
    [k \in DOMAIN record \cup {key} |->
        IF k = key THEN strftime(now) ELSE record[k]]

\* pd.to_datetime(text).dt.date: the date is the part before the blank.
to_date(text) ==
    LET blank == CHOOSE i \in 1..Len(text) :
                     text[i] = " " /\ \A j \in 1..(i - 1) : text[j] # " "
    IN  Join("", SubSeq(text, 1, blank - 1))

\* df.groupby(date)[column].sum() as a dict, one record after the other.
RECURSIVE GroupSum(_, _, _)
GroupSum(rows, key, column) ==
    IF rows = <<>> THEN EmptyDict
    ELSE LET before == GroupSum(SubSeq(rows, 1, Len(rows) - 1), key, column)
             row == rows[Len(rows)]
             date == to_date(row[key])
         IN  DictSet(before, date, DictGet(before, date, 0) + row[column])

\* df.groupby(date).size() as a dict.
RECURSIVE GroupSize(_, _)
GroupSize(rows, key) ==
    IF rows = <<>> THEN EmptyDict
    ELSE LET before == GroupSize(SubSeq(rows, 1, Len(rows) - 1), key)
             date == to_date(rows[Len(rows)][key])
         IN  DictSet(before, date, DictGet(before, date, 0) + 1)

\* app_enhanced.py display_dashboard, lines 467-469: daily_violations. The
\* chart belongs to the block of line 441 and display_dashboard returns at
\* line 421 for an empty history.
daily_violations(history) ==
    IF history = <<>> THEN EmptyDict
    ELSE IF EnhancedStats(history).total_violations > 0
    THEN GroupSum(history, "timestamp", "total_violations")
    ELSE EmptyDict

\* app_demo.py display_dashboard, lines 299-301: daily_counts.
daily_counts(rows) ==
    IF Len(rows) > 1 THEN GroupSize(rows, "Timestamp") ELSE EmptyDict

\* The text of an uploaded file's name, cut at its commas.
NameText(name) ==
    IF name = "a,b.jpg" THEN <<"a", ",", "b.jpg">> ELSE <<name>>

\* "; ".join(result['violations'])
RECURSIVE JoinText(_, _)
JoinText(sep, list) ==
    IF list = <<>> THEN <<>>
    ELSE IF Len(list) = 1 THEN <<Head(list)>>
    ELSE <<Head(list), sep>> \o JoinText(sep, Tail(list))

\* app_guaranteed.py line 260: the line added for one result.
CsvLine(result) ==
    NameText(result.filename) \o <<",">>
        \o JoinText("; ", result.violations) \o <<",">>
        \o <<ToString(result.fine_amount)>> \o <<",">>
        \o result.timestamp \o <<"\n">>

RECURSIVE CsvLines(_)
CsvLines(history) ==
    IF history = <<>> THEN <<>>
    ELSE CsvLine(Head(history)) \o CsvLines(Tail(history))

\* app_guaranteed.py "Download Report", lines 255-260: csv_content, or no
\* download at all for an empty history.
csv_content(history) ==
    IF history = <<>> THEN <<>>
    ELSE <<"Filename", ",", "Violations", ",", "Fine_Amount", ",",
           "Timestamp", "\n">> \o CsvLines(history)

\* Histories as the scripts build them: every record stamped when it is
\* made, by a clock that does not run backwards.
ReportNames == {"scene.jpg", "a,b.jpg"}
ReportDraws == {GDraw(FALSE, <<1>>), GDraw(TRUE, <<1>>), GDraw(TRUE, <<3, 2>>)}

Ticks(n) == {t \in [1..n -> 1..Len(Clock)] : \A i \in 1..(n - 1) : t[i] <= t[i + 1]}

GuaranteedHistories ==
    UNION { { [i \in 1..n |->
                  Stamp(generate_violation_detection(names[i], draws[i]),
                        "timestamp", Clock[ticks[i]])] :
              names \in [1..n -> ReportNames], draws \in [1..n -> ReportDraws],
              ticks \in Ticks(n) } : n \in 0..MaxReport }

EnhancedResults ==
    { generate_demo_result("scene.jpg", FALSE, <<"No Helmet">>, 90),
      generate_demo_result("scene.jpg", TRUE, <<"No Helmet", "Triple Riding">>, 90),
      format_results(<<>>, TempName),
      format_results(DetectLoop(<< [class |-> "Rider", bbox |-> DemoBox, conf |-> 90],
                                     [class |-> "Rider", bbox |-> OtherBox, conf |-> 50] >>, <<<<FALSE, TRUE, 3, TRUE>>,
                                                    <<FALSE, FALSE, 2, FALSE>>>>),
                     TempName) }

EnhancedHistories ==
    UNION { { [i \in 1..n |-> Stamp(results[i], "timestamp", Clock[ticks[i]])] :
              results \in [1..n -> EnhancedResults], ticks \in Ticks(n) } :
            n \in 0..MaxReport }

\* The rows of one generate_sample_detections call; the clock passes
\* midnight after the first `late` rows.
DemoRows ==
    { [i \in 1..Len(draws) |->
          Stamp(SampleRow(i - 1, draws[i]), "Timestamp",
                IF i <= late THEN Clock[1] ELSE Clock[2])] :
        draws \in {d \in DemoBatches : Len(d) = 5}, late \in 0..5 }
    \cup {<<>>, <<Stamp(SampleRow(0, RowDraw(1)), "Timestamp", Clock[1])>>}

(***************************************************************************)
(* SpecPure: the pure functions on inputs drawn from bounded sets.         *)
(***************************************************************************)
\* The tags of the fine table, the marker, and tags the other scripts use.
TagUniverse ==
    {"No Helmet", "Triple Riding", "No License Plate", "Red Light Jumping",
     "No Violation", "Helmet Violation", "No Helmet + Triple Riding"}

\* The rider records analyze_rider of app.py can return (lp_status is never
\* False there: it is True or stays None).
AppRiderRecords ==
    { [bbox |-> OtherBox, helmet_status |-> h, lp_status |-> l,
       lp_number |-> IF l = "True" THEN "KA01AB1234" ELSE "None",
       passenger_count |-> n, confidence |-> 50] :
        h \in {"True", "False", "None"}, l \in {"True", "None"}, n \in 0..MaxCount }

Calls ==
    { [fn |-> "rider", bbox |-> DemoBox, conf |-> 90, has_helmet |-> h,
       has_passengers |-> p, n |-> n, has_license_plate |-> l] :
        h \in BOOLEAN, p \in BOOLEAN, n \in 2..5, l \in BOOLEAN }
    \cup { [fn |-> "calculate_fine", violations |-> v] :
             v \in SeqsUpTo(TagUniverse, MaxTags) }
    \cup { [fn |-> "sample_row", helmet_status |-> h, lp_status |-> l,
            passengers |-> n] :
             h \in {"Wearing", "Not Wearing", "Not Found"},
             l \in {"Visible", "Not Visible", "Not Found"}, n \in 1..4 }
    \cup { [fn |-> "summary", dets |-> d] :
             d \in SeqsUpTo(AppRiderRecords, MaxSummary) }
    \cup { [fn |-> "classify_twice", image |-> ImageShape, rider_bbox |-> b] :
             b \in {DemoBox, OtherBox} }
    \cup { [fn |-> "report", history |-> h] : h \in GuaranteedHistories }
    \cup { [fn |-> "daily_violations", history |-> h] : h \in EnhancedHistories }
    \cup { [fn |-> "daily_counts", history |-> h] : h \in DemoRows }
    \cup { [fn |-> "crop", where |-> w, shape |-> ImageShape, xyxy |-> b] :
             w \in {"rider", "plate", "enhanced"},
             b \in {c \in CropBoxes : c[1] <= c[3] /\ c[2] <= c[4]} }

\* detect_violations, lines 155-163, for one Rider box.
ApplyRider ==
    /\ call.fn = "rider" /\ ret = Pending
    /\ ret' = Return(RiderDetection(call.bbox, call.conf,
                        analyze_rider_violations(call.has_helmet,
                            call.has_passengers, call.n, call.has_license_plate)))
    /\ UNCHANGED <<appVars, call>>

\* calculate_fine on a caller's list: it returns for every list.
ApplyCalculateFine ==
    /\ call.fn = "calculate_fine" /\ ret = Pending
    /\ ret' = Return(calculate_fine(call.violations))
    /\ UNCHANGED <<appVars, call>>

\* generate_sample_detections, lines 76-83, for one row's draws.
ApplySampleRow ==
    /\ call.fn = "sample_row" /\ ret = Pending
    /\ ret' = Return(DemoViolations(call.helmet_status, call.lp_status,
                                    call.passengers))
    /\ UNCHANGED <<appVars, call>>

\* display_violation_summary on a list of rider records.
ApplySummary ==
    /\ call.fn = "summary" /\ ret = Pending
    /\ ret' = Return(display_violation_summary(call.dets))
    /\ UNCHANGED <<appVars, call>>

\* analyze_rider_violations called twice on the same image and box: each
\* call makes its own random.choice / random.randint draws.
ApplyClassifyTwice ==
    /\ call.fn = "classify_twice" /\ ret = Pending
    /\ \E a \in AnalysisDraws, b \in AnalysisDraws :
         ret' = Return([first |-> analyze_rider_violations(a[1], a[2], a[3], a[4]),
                        second |-> analyze_rider_violations(b[1], b[2], b[3], b[4])])
    /\ UNCHANGED <<appVars, call>>

\* The region one of the three crop sites takes for a box.
ApplyCrop ==
    /\ call.fn = "crop" /\ ret = Pending
    /\ ret' = Return(CASE call.where = "rider" -> RiderRoi(call.shape, call.xyxy)
                       [] call.where = "plate" -> PlateRoi(call.shape, call.xyxy)
                       [] OTHER -> EnhancedRoi(call.shape, call.xyxy))
    /\ UNCHANGED <<appVars, call>>

\* The "Download Report" button on a history.
ApplyReport ==
    /\ call.fn = "report" /\ ret = Pending
    /\ ret' = Return(csv_content(call.history))
    /\ UNCHANGED <<appVars, call>>

\* The per-date chart of a dashboard on a history.
ApplyPerDate ==
    /\ call.fn \in {"daily_violations", "daily_counts"} /\ ret = Pending
    /\ ret' = Return(IF call.fn = "daily_violations"
                     THEN daily_violations(call.history)
                     ELSE daily_counts(call.history))
    /\ UNCHANGED <<appVars, call>>

InitPure ==
    /\ app = "none"
    /\ MODEL_AVAILABLE = TRUE
    /\ model_loaded = FALSE
    /\ detection_history = <<>>
    /\ detections = <<>>
    /\ analysis_complete = FALSE
    /\ messages = <<>>
    /\ clicked = "none"
    /\ origin = <<>>
    /\ call \in Calls
    /\ ret = Pending

NextPure ==
    \/ ApplyRider
    \/ ApplyCalculateFine
    \/ ApplySampleRow
    \/ ApplySummary
    \/ ApplyClassifyTwice
    \/ ApplyCrop
    \/ ApplyReport
    \/ ApplyPerDate

SpecPure == InitPure /\ [][NextPure]_vars

(***************************************************************************)
(* app.py: analyze_rider and the rider loop of process_image.              *)
(*                                                                         *)
(* A sub-detection is what the model finds inside a rider crop:            *)
(*   class   self.names[c]                                                 *)
(*   xyxy    its box in the crop                                           *)
(*   write   "ok" or "raises": cv2.imwrite / os.remove of lines 239-242    *)
(*   ocr     what the plate recognizer does: "plate" (a result), "empty"   *)
(*           (a response without results), "raises" (request or parse      *)
(*           error), "none" for a class that is not "LP"                   *)
(***************************************************************************)
MaxSubs == 3         \* SpecRider: sub-detections in one rider crop
MaxRiders == 3       \* SpecRider: full-frame detections in one image

RiderCrop == [height |-> 48, width |-> 64]
PlateBox == <<10, 30, 40, 40>>

SubDetections ==
    { [class |-> c, xyxy |-> PlateBox, write |-> "ok", ocr |-> "none"] :
        c \in {"Helmet", "No Helmet", "Rider"} }
    \cup { [class |-> "LP", xyxy |-> PlateBox, write |-> "ok", ocr |-> o] :
             o \in {"plate", "empty", "raises"} }
    \cup { [class |-> "LP", xyxy |-> PlateBox, write |-> "raises", ocr |-> "none"] }

\* detect_license_plate: [value, msgs]. The except of line 120 swallows the
\* exception, so both failures end at the return of line 122.
detect_license_plate(ocr) ==
    IF ocr = "plate"
    THEN [value |-> "KA01AB1234", msgs |-> <<>>]
    ELSE IF ocr = "raises"
    THEN [value |-> "Not detected",
          msgs |-> <<Msg("warning", "License plate detection failed")>>]
    ELSE [value |-> "Not detected", msgs |-> <<>>]

\* analyze_rider, lines 203-206: the locals before the loop.
RiderLocals ==
    [helmet_status |-> "None", lp_status |-> "None", lp_number |-> "None",
     passenger_count |-> 0, msgs |-> <<>>]

\* FoldSub where a failing plate sub-detection also resets the other fields.
FoldSub_FailureResets(st, sub) ==
    IF sub.class = "Helmet"
    THEN [st EXCEPT !.helmet_status = "True",
                    !.passenger_count = st.passenger_count + 1]
    ELSE IF sub.class = "No Helmet"
    THEN [st EXCEPT !.helmet_status = "False",
                    !.passenger_count = st.passenger_count + 1]
    ELSE IF sub.class = "LP"
    THEN IF PlateRoi(RiderCrop, sub.xyxy).outcome # "analysed" \/ sub.write = "raises"
              \/ sub.ocr # "plate"
         THEN [RiderLocals EXCEPT !.lp_status = "True",
                                  !.lp_number = "Detection failed"]
         ELSE [st EXCEPT !.lp_status = "True", !.lp_number = "KA01AB1234"]
    ELSE st

\* FoldSub where a failing plate crop leaves lp_status as it was.
FoldSub_StatusAfterCrop(st, sub) ==
    IF sub.class = "Helmet"
    THEN [st EXCEPT !.helmet_status = "True",
                    !.passenger_count = st.passenger_count + 1]
    ELSE IF sub.class = "No Helmet"
    THEN [st EXCEPT !.helmet_status = "False",
                    !.passenger_count = st.passenger_count + 1]
    ELSE IF sub.class = "LP"
    THEN IF PlateRoi(RiderCrop, sub.xyxy).outcome # "analysed" \/ sub.write = "raises"
         THEN [st EXCEPT !.lp_number = "Detection failed"]
         ELSE [st EXCEPT !.lp_status = "True",
                         !.lp_number = detect_license_plate(sub.ocr).value]
    ELSE st

\* FoldSub where the helmet status, once set, is kept (first seen wins).
FoldSub_FirstSeenWins(st, sub) ==
    IF sub.class = "Helmet"
    THEN [st EXCEPT !.helmet_status = IF @ = "None" THEN "True" ELSE @,
                    !.passenger_count = st.passenger_count + 1]
    ELSE IF sub.class = "No Helmet"
    THEN [st EXCEPT !.helmet_status = IF @ = "None" THEN "False" ELSE @,
                    !.passenger_count = st.passenger_count + 1]
    ELSE IF sub.class = "LP"
    THEN IF PlateRoi(RiderCrop, sub.xyxy).outcome # "analysed" \/ sub.write = "raises"
         THEN [st EXCEPT !.lp_status = "True", !.lp_number = "Detection failed"]
         ELSE [st EXCEPT !.lp_status = "True",
                         !.lp_number = detect_license_plate(sub.ocr).value]
    ELSE st

\* FoldSub where only a "Helmet" sub-detection counts as an occupant.
FoldSub_HelmetOnlyCounts(st, sub) ==
    IF sub.class = "Helmet"
    THEN [st EXCEPT !.helmet_status = "True",
                    !.passenger_count = st.passenger_count + 1]
    ELSE IF sub.class = "No Helmet"
    THEN [st EXCEPT !.helmet_status = "False"]
    ELSE IF sub.class = "LP"
    THEN IF PlateRoi(RiderCrop, sub.xyxy).outcome # "analysed" \/ sub.write = "raises"
         THEN [st EXCEPT !.lp_status = "True", !.lp_number = "Detection failed"]
         ELSE [st EXCEPT !.lp_status = "True",
                         !.lp_number = detect_license_plate(sub.ocr).value]
    ELSE st

\* analyze_rider, lines 222-244: one turn of the loop over the
\* sub-detections. The bare except of line 243 covers the crop, the write,
\* the recognizer call and the removal of the temporary file.
FoldSub(st, sub) ==
    IF sub.class = "Helmet"
    THEN [st EXCEPT !.helmet_status = "True",
                    !.passenger_count = st.passenger_count + 1]
    ELSE IF sub.class = "No Helmet"
    THEN [st EXCEPT !.helmet_status = "False",
                    !.passenger_count = st.passenger_count + 1]
    ELSE IF sub.class = "LP"
    THEN IF PlateRoi(RiderCrop, sub.xyxy).outcome # "analysed" \/ sub.write = "raises"
         THEN [st EXCEPT !.lp_status = "True", !.lp_number = "Detection failed"]
         ELSE LET lp == detect_license_plate(sub.ocr)
              IN  [st EXCEPT !.lp_status = "True", !.lp_number = lp.value,
                             !.msgs = st.msgs \o lp.msgs]
    ELSE st

RECURSIVE FoldSubs(_, _)
FoldSubs(st, subs) ==
    IF subs = <<>> THEN st ELSE FoldSubs(FoldSub(st, Head(subs)), Tail(subs))

\* The tuple of line 246 (and of line 250) for the locals.
RiderTuple(st) ==
    <<st.helmet_status, st.lp_status, st.lp_number, st.passenger_count>>

\* analyze_rider: [value, msgs]. raises: LoadImages or the model call of
\* lines 201-216 raises, which the except of line 248 reports.
analyze_rider(raises, subs) ==
    IF raises
    THEN [value |-> <<"None", "None", "None", 0>>,
          msgs |-> <<Msg("error", "Error analyzing rider")>>]
    ELSE LET st == FoldSubs(RiderLocals, subs)
         IN  [value |-> RiderTuple(st), msgs |-> st.msgs]

\* The full-frame detections process_image walks through:
\*   class, xyxy, conf   the detection
\*   write               "ok" or "raises": cv2.imwrite of the rider crop
\*   raises, subs        what analyze_rider meets on that crop
InsideBox == <<10, 10, 30, 30>>
OutsideBox == <<150, 150, 150, 150>>

FrameKinds ==
    { [class |-> "Car", xyxy |-> InsideBox, write |-> "ok", raises |-> FALSE,
       subs |-> <<>>],
      [class |-> "Rider", xyxy |-> InsideBox, write |-> "ok", raises |-> TRUE,
       subs |-> <<>>],
      [class |-> "Rider", xyxy |-> InsideBox, write |-> "ok", raises |-> FALSE,
       subs |-> <<>>],
      [class |-> "Rider", xyxy |-> InsideBox, write |-> "ok", raises |-> FALSE,
       subs |-> << [class |-> "No Helmet", xyxy |-> PlateBox, write |-> "ok",
                    ocr |-> "none"],
                   [class |-> "LP", xyxy |-> PlateBox, write |-> "ok",
                    ocr |-> "plate"] >>],
      [class |-> "Rider", xyxy |-> InsideBox, write |-> "raises", raises |-> FALSE,
       subs |-> <<>>],
      [class |-> "Rider", xyxy |-> OutsideBox, write |-> "ok", raises |-> FALSE,
       subs |-> <<>>] }

\* The k-th detection of a frame: conf tells the detections of a frame apart.
FrameDet(kind, k) ==
    [class |-> kind.class, xyxy |-> kind.xyxy, conf |-> 50 + k,
     write |-> kind.write, raises |-> kind.raises, subs |-> kind.subs]

\* RiderStep where a failing rider empties the list collected so far.
RiderStep_FailureDropsAll(loc, det) ==
    IF det.class # "Rider" THEN loc
    ELSE IF RiderRoi(ImageShape, det.xyxy).outcome # "analysed" \/ det.write = "raises"
    THEN [detections |-> <<>>,
          msgs |-> loc.msgs \o <<Msg("error", "Error processing rider region")>>]
    ELSE LET r == analyze_rider(det.raises, det.subs)
         IN  [detections |-> IF det.raises THEN <<>> ELSE
                  Append(loc.detections,
                      [bbox |-> det.xyxy, helmet_status |-> r.value[1],
                       lp_status |-> r.value[2], lp_number |-> r.value[3],
                       passenger_count |-> r.value[4], confidence |-> det.conf]),
              msgs |-> loc.msgs \o r.msgs]

\* process_image, lines 157-186: one turn of the loop over the detections
\* of the frame, on the locals [detections, msgs].
RiderStep(loc, det) ==
    IF det.class # "Rider" THEN loc
    ELSE IF RiderRoi(ImageShape, det.xyxy).outcome # "analysed" \/ det.write = "raises"
    THEN [detections |-> loc.detections,
          msgs |-> loc.msgs \o <<Msg("error", "Error processing rider region")>>]
    ELSE LET r == analyze_rider(det.raises, det.subs)
         IN  [detections |->
                  Append(loc.detections,
                      [bbox |-> det.xyxy, helmet_status |-> r.value[1],
                       lp_status |-> r.value[2], lp_number |-> r.value[3],
                       passenger_count |-> r.value[4], confidence |-> det.conf]),
              msgs |-> loc.msgs \o r.msgs]

(***************************************************************************)
(* SpecRider: analyze_rider and process_image of app.py, one loop turn per *)
(* step. call holds the function and what the detector will find; ret      *)
(* holds the locals while the function runs (k: turns of the loop done)    *)
(* and the returned value afterwards.                                      *)
(***************************************************************************)
RiderCalls ==
    { [fn |-> "analyze_rider", raises |-> r, subs |-> subs] :
        r \in BOOLEAN, subs \in SeqsUpTo(SubDetections, MaxSubs) }
    \cup { [fn |-> "process_image", raises |-> r,
            dets |-> [k \in 1..n |-> FrameDet(kinds[k], k)]] :
             r \in BOOLEAN, n \in 0..MaxRiders, kinds \in [1..MaxRiders -> FrameKinds] }

Running(k, locals) == [kind |-> "running", k |-> k, locals |-> locals]

\* analyze_rider, lines 200-206, or the except of line 248.
RiderEnter ==
    /\ call.fn = "analyze_rider" /\ ret = Pending
    /\ IF call.raises
       THEN LET r == analyze_rider(TRUE, call.subs)
            IN  /\ ret' = Return(r.value)
                /\ messages' = r.msgs
       ELSE /\ ret' = Running(0, RiderLocals)
            /\ messages' = <<>>
    /\ UNCHANGED <<app, MODEL_AVAILABLE, model_loaded, detection_history,
                   detections, analysis_complete, clicked, origin, call>>

\* One turn of the loop of lines 222-244.
RiderFold ==
    /\ call.fn = "analyze_rider" /\ ret.kind = "running"
    /\ ret.k < Len(call.subs)
    /\ ret' = Running(ret.k + 1, FoldSub(ret.locals, call.subs[ret.k + 1]))
    /\ UNCHANGED <<appVars, call>>

\* The return of line 246.
RiderReturn ==
    /\ call.fn = "analyze_rider" /\ ret.kind = "running"
    /\ ret.k = Len(call.subs)
    /\ ret' = Return(RiderTuple(ret.locals))
    /\ messages' = ret.locals.msgs
    /\ UNCHANGED <<app, MODEL_AVAILABLE, model_loaded, detection_history,
                   detections, analysis_complete, clicked, origin, call>>

\* process_image, lines 126-150, or the except of line 194 when loading the
\* image or the inference raises.
FrameEnter ==
    /\ call.fn = "process_image" /\ ret = Pending
    /\ LET r == AppProcessImage(model_loaded, call.raises, <<>>)
       IN  IF ~model_loaded \/ call.raises
           THEN /\ ret' = Return(r.value)
                /\ messages' = r.msgs
           ELSE /\ ret' = Running(0, [detections |-> <<>>, msgs |-> <<>>])
                /\ messages' = <<>>
    /\ UNCHANGED <<app, MODEL_AVAILABLE, model_loaded, detection_history,
                   detections, analysis_complete, clicked, origin, call>>

\* One turn of the loop of lines 157-186.
FrameRider ==
    /\ call.fn = "process_image" /\ ret.kind = "running"
    /\ ret.k < Len(call.dets)
    /\ ret' = Running(ret.k + 1, RiderStep(ret.locals, call.dets[ret.k + 1]))
    /\ UNCHANGED <<appVars, call>>

\* The return of line 192.
FrameReturn ==
    /\ call.fn = "process_image" /\ ret.kind = "running"
    /\ ret.k = Len(call.dets)
    /\ ret' = Return(AppProcessImage(model_loaded, FALSE, ret.locals.detections).value)
    /\ messages' = ret.locals.msgs
    /\ UNCHANGED <<app, MODEL_AVAILABLE, model_loaded, detection_history,
                   detections, analysis_complete, clicked, origin, call>>

InitRider ==
    /\ app = "none"
    /\ MODEL_AVAILABLE = TRUE
    /\ model_loaded \in BOOLEAN
    /\ detection_history = <<>>
    /\ detections = <<>>
    /\ analysis_complete = FALSE
    /\ messages = <<>>
    /\ clicked = "none"
    /\ origin = <<>>
    /\ call \in RiderCalls
    /\ ret = Pending

NextRider ==
    \/ RiderEnter
    \/ RiderFold
    \/ RiderReturn
    \/ FrameEnter
    \/ FrameRider
    \/ FrameReturn

SpecRider == InitRider /\ [][NextRider]_vars

(***************************************************************************)
(* The fine table of the specification, used to state the claims.          *)
(***************************************************************************)
FineTableTags ==
    {"No Helmet", "Triple Riding", "No License Plate", "Red Light Jumping"}

TableSum(tags) ==
      (IF "No Helmet" \in tags THEN 500 ELSE 0)
    + (IF "Triple Riding" \in tags THEN 1000 ELSE 0)
    + (IF "No License Plate" \in tags THEN 300 ELSE 0)
    + (IF "Red Light Jumping" \in tags THEN 800 ELSE 0)

Returned == ret.kind = "return"

(***************************************************************************)
(* C1: for every rider, the fine computed for the tags the classification  *)
(* returned is the sum of the table constants over exactly the tags        *)
(* present: each present tag counts once, no absent tag counts.            *)
(***************************************************************************)
C1_FineIsSumOverTags ==
    (call.fn = "rider" /\ Returned) =>
        /\ ret.value.fine_amount = TableSum(Range(ret.value.violations))
        /\ Len(ret.value.violations) = Cardinality(Range(ret.value.violations))

\* Scenario B: helmet worn, three riders, no plate: 1300.
C1_Witness ==
    /\ call.fn = "rider" /\ Returned
    /\ call.has_helmet /\ call.has_passengers /\ call.n = 3
    /\ ~call.has_license_plate
    /\ ret.value.violations = <<"Triple Riding", "No License Plate">>
    /\ ret.value.fine_amount = 1300

(***************************************************************************)
(* C2: calculate_fine, given a list holding a tag outside the four-entry   *)
(* fine table, ends in a ConfigurationError and returns no total.          *)
(***************************************************************************)
C2_UnknownTagRejected ==
    (/\ call.fn = "calculate_fine"
     /\ ret # Pending
     /\ \E i \in 1..Len(call.violations) : call.violations[i] \notin FineTableTags)
    => ret.kind = "ConfigurationError"

(***************************************************************************)
(* C3: the tags derived from a rider record are: the helmet tag iff the    *)
(* helmet is not worn, the plate tag iff the plate is not visible (unknown *)
(* included), the triple tag iff the passenger count is at least 3, and    *)
(* nothing else; unknown / unknown / 0 gives the plate tag alone, which    *)
(* the fine table prices at 300.                                           *)
(***************************************************************************)
\* The fine-table names of the violations a one-rider summary counts.
SummaryTags(m) ==
       (IF m.helmet_violations = 1 THEN <<"No Helmet">> ELSE <<>>)
    \o (IF m.lp_violations = 1 THEN <<"No License Plate">> ELSE <<>>)
    \o (IF m.passenger_violations = 1 THEN <<"Triple Riding">> ELSE <<>>)

DemoTableSum(tags) ==
      (IF "Helmet Violation" \in tags THEN 500 ELSE 0)
    + (IF "Triple Driving" \in tags THEN 1000 ELSE 0)
    + (IF "License Plate Issue" \in tags THEN 300 ELSE 0)

C4_StoredFineIsSumOverTags ==
    /\ app = "guaranteed" =>
          \A i \in 1..Len(detection_history) :
              detection_history[i].fine_amount
                  = TableSum(Range(detection_history[i].violations))
    /\ app = "enhanced" =>
          \A i \in 1..Len(detection_history) :
              \A j \in 1..Len(detection_history[i].detections) :
                  LET d == detection_history[i].detections[j]
                  IN  d.fine_amount = TableSum(Range(d.violations))
    /\ app = "demo" =>
          \A i \in 1..Len(detections) :
              LET r == detections[i]
              IN  /\ r.Violations = "No Violations" => r.FineAmount = 0
                  /\ r.FineAmount = DemoTableSum(Range(DemoViolations(
                         r.HelmetStatus, r.LicensePlateStatus, r.PassengerCount)))

(***************************************************************************)
(* C5: after any sequence of appends and clears the violation rate of the  *)
(* dashboard lies in [0, 100], and is 0 when nothing has been processed.   *)
(***************************************************************************)
RateInPercentRange(rate) == rate.num >= 0 /\ rate.num <= 100 * rate.den

C5_RateWithinPercentRange ==
    /\ app = "guaranteed" =>
          LET rate == GuaranteedStats(detection_history).violation_rate
          IN  /\ RateInPercentRange(rate)
              /\ detection_history = <<>> => rate.num = 0
    /\ app = "enhanced" =>
          LET rate == EnhancedStats(detection_history).violation_rate
          IN  /\ RateInPercentRange(rate)
              /\ detection_history = <<>> => rate.num = 0

(***************************************************************************)
(* C6: totalViolations is the number of records of the session sequence    *)
(* whose tags are not the no-violation marker, each record counted once,   *)
(* so totalViolations <= totalProcessed = the length of the sequence.      *)
(***************************************************************************)
C6_ViolationsCountRecords ==
    /\ app = "guaranteed" =>
          LET st == GuaranteedStats(detection_history)
          IN  /\ st.total_processed = Len(detection_history)
              /\ st.total_violations =
                     Cardinality({i \in 1..Len(detection_history) :
                         detection_history[i].violations # <<"No Violation">>})
              /\ st.total_violations <= st.total_processed
    /\ app = "enhanced" =>
          LET st == EnhancedStats(detection_history)
          IN  /\ st.total_processed = Len(detection_history)
              /\ st.total_violations =
                     Cardinality({i \in 1..Len(detection_history) :
                         \E j \in 1..Len(detection_history[i].detections) :
                             detection_history[i].detections[j].violations
                                 # <<"No Violation">>})
              /\ st.total_violations <= st.total_processed

(***************************************************************************)
(* C7: an append adds the record at the end of the session sequence and    *)
(* neither reorders nor removes what is there: the sequence before is a    *)
(* strict prefix of the sequence after, one longer for a detection (so R1  *)
(* then R2 on a fresh session give [R1, R2] and totalProcessed 2), and     *)
(* longer by the batch for generated sample data.                          *)
(***************************************************************************)
C7_AppendExtendsAtEnd ==
    [][ (app \in {"enhanced", "guaranteed"} /\ Len(origin') > Len(origin)) =>
           /\ Len(detection_history') =
                  Len(detection_history) + (Len(origin') - Len(origin))
           /\ SubSeq(detection_history', 1, Len(detection_history))
                  = detection_history
           /\ clicked' = "detect" => Len(detection_history')
                                        = Len(detection_history) + 1
           /\ app = "guaranteed" =>
                  GuaranteedStats(detection_history').total_processed
                      = Len(detection_history')
           /\ app = "enhanced" =>
                  EnhancedStats(detection_history').total_processed
                      = Len(detection_history') ]_vars

\* Two different records appended one after the other to a fresh session.
C7_Witness ==
    /\ app = "guaranteed"
    /\ clicked = "detect"
    /\ Len(detection_history) = 2
    /\ origin = <<"demo", "demo">>
    /\ detection_history[1] # detection_history[2]
    /\ GuaranteedStats(detection_history).total_processed = 2

(***************************************************************************)
(* C8: the session's record sequence is emptied or replaced only by the    *)
(* explicit clear / reset button; no other action (starting detection on   *)
(* a new upload, generating data) removes or discards records in it.       *)
(***************************************************************************)
C8_OnlyClearDiscards ==
    [][ /\ ~IsPrefix(detection_history, detection_history') => clicked' = "clear"
        /\ ~IsPrefix(detections, detections') => clicked' = "clear" ]_vars

(***************************************************************************)
(* C9: when the full-frame detector call fails for a request (detector     *)
(* unavailable, weights missing, an exception during detection), no        *)
(* violation record for that request is appended to the session sequence:  *)
(* the sequence never holds a record made by the fallback.                 *)
(***************************************************************************)
C9_NoRecordForFailedDetection ==
    app = "enhanced" => \A i \in 1..Len(origin) : origin[i] # "demo"

(***************************************************************************)
(* C10: a record made while no real detector is available can always be    *)
(* told, from its own contents, from a record made by genuine detection:   *)
(* no reachable sequence holds a fabricated and a detected record that     *)
(* are equal.                                                              *)
(***************************************************************************)
C10_FabricatedDiffersFromDetected ==
    app = "enhanced" =>
        \A i, j \in 1..Len(detection_history) :
            (origin[i] = "demo" /\ origin[j] = "detected")
                => detection_history[i] # detection_history[j]

(***************************************************************************)
(* C11: the rider classification is deterministic and stateless: two runs  *)
(* on the same unchanged image and rider box give the identical tag set.   *)
(***************************************************************************)
C11_ClassifyTwiceSameTags ==
    (call.fn = "classify_twice" /\ Returned) =>
        Range(ret.value.first) = Range(ret.value.second)

(***************************************************************************)
(* C17: for every image size, box and margin the cropped region has all    *)
(* its coordinates inside the image, 0 <= x1' <= x2' <= width and          *)
(* 0 <= y1' <= y2' <= height, and a padded box that lies outside the image *)
(* or has no area is reported as a failure of the extraction, never        *)
(* analysed further.                                                       *)
(***************************************************************************)
C17_CropInsideImageOrFails ==
    (call.fn = "crop" /\ Returned) =>
        LET roi == ret.value.roi
        IN  /\ 0 <= roi.x1 /\ roi.x1 <= roi.x2 /\ roi.x2 <= call.shape.width
            /\ 0 <= roi.y1 /\ roi.y1 <= roi.y2 /\ roi.y2 <= call.shape.height
            /\ (roi.rows = 0 \/ roi.cols = 0) => ret.value.outcome # "analysed"

(***************************************************************************)
(* Notions used to state the claims on analyze_rider and process_image.    *)
(***************************************************************************)
OccupantCount(subs) ==
    Cardinality({i \in 1..Len(subs) : subs[i].class \in {"Helmet", "No Helmet"}})

PlateSubs(subs) == {i \in 1..Len(subs) : subs[i].class = "LP"}

\* The same sub-detections with every plate crop and recognizer call working.
Healed(subs) ==
    [i \in 1..Len(subs) |->
        IF subs[i].class = "LP"
        THEN [subs[i] EXCEPT !.write = "ok", !.ocr = "plate"]
        ELSE subs[i]]

\* A rider whose own region can be cropped and written.
Analysable(det) ==
    /\ det.class = "Rider"
    /\ RiderRoi(ImageShape, det.xyxy).outcome = "analysed"
    /\ det.write = "ok"

IsRider(det) == det.class = "Rider"

Confs(dets) == [i \in 1..Len(dets) |-> dets[i].conf]
Confidences(records) == [i \in 1..Len(records) |-> records[i].confidence]

\* process_image returned its (image, results, detections) tuple.
FrameReturned ==
    /\ call.fn = "process_image" /\ Returned
    /\ Len(ret.value.items) = 3 /\ ret.value.items[3] # PyNone

(***************************************************************************)
(* C12: a failure in the nested analysis of one rider never aborts the     *)
(* frame: the records of the riders before it are kept and the riders      *)
(* after it are still analysed and recorded, so at every turn of the loop  *)
(* and at the return the records are, in order, those of the riders met    *)
(* so far whose own region could be extracted.                             *)
(***************************************************************************)
C12_RiderFailureKeepsOthers ==
    /\ (call.fn = "process_image" /\ ret.kind = "running") =>
          Confidences(ret.locals.detections)
              = Confs(SelectSeq(SubSeq(call.dets, 1, ret.k), Analysable))
    /\ (call.fn = "process_image" /\ Returned /\ model_loaded /\ ~call.raises) =>
          /\ FrameReturned
          /\ Confidences(ret.value.items[3].items)
                 = Confs(SelectSeq(call.dets, Analysable))

\* Three riders, the analysis of the first raises and the crop of the second
\* cannot be written: the first and the third are in the result.
C12_Witness ==
    /\ FrameReturned
    /\ Len(call.dets) = 3
    /\ \A i \in 1..3 : call.dets[i].class = "Rider"
    /\ Analysable(call.dets[1]) /\ call.dets[1].raises
    /\ call.dets[2].write = "raises"
    /\ Analysable(call.dets[3]) /\ call.dets[3].subs # <<>>
    /\ Confidences(ret.value.items[3].items) = <<51, 53>>
    /\ ret.value.items[3].items[1].helmet_status = "None"
    /\ ret.value.items[3].items[2].helmet_status = "False"

(***************************************************************************)
(* C13: within analyze_rider a failure while handling one sub-detection    *)
(* (the plate crop or the recognizer) touches only the plate number: the   *)
(* helmet status, the plate status and the passenger count are what they   *)
(* would be had every plate sub-detection been handled without failure.    *)
(***************************************************************************)
C13_SubFailureTouchesOnlyItsField ==
    (call.fn = "analyze_rider" /\ Returned /\ ~call.raises) =>
        LET healed == analyze_rider(FALSE, Healed(call.subs)).value
        IN  /\ ret.value[1] = healed[1]
            /\ ret.value[2] = healed[2]
            /\ ret.value[4] = healed[4]

\* A plate crop that fails between two occupants.
C13_Witness ==
    /\ call.fn = "analyze_rider" /\ Returned /\ ~call.raises
    /\ Len(call.subs) = 3
    /\ call.subs[1].class = "No Helmet"
    /\ call.subs[2].class = "LP" /\ call.subs[2].write = "raises"
    /\ call.subs[3].class = "Helmet"
    /\ ret.value = <<"True", "True", "Detection failed", 2>>

(***************************************************************************)
(* C14: when a plate sub-detection is found and the recognizer is tried    *)
(* and fails (an exception, or a response without a plate), the rider's    *)
(* licence plate number is the "Detection failed" sentinel.                *)
(***************************************************************************)
C14_RecognizerFailureGivesSentinel ==
    (/\ call.fn = "analyze_rider" /\ Returned /\ ~call.raises
     /\ PlateSubs(call.subs) # {}
     /\ LET last == call.subs[CHOOSE i \in PlateSubs(call.subs) :
                                  \A j \in PlateSubs(call.subs) : j <= i]
        IN  last.write = "ok" /\ last.ocr \in {"empty", "raises"})
    => ret.value[3] = "Detection failed"

(***************************************************************************)
(* C15: in every rider record of analyze_rider, whatever was folded and    *)
(* whatever failed, a plate number (a plate or a sentinel) is present only *)
(* when the plate status is visible, and while no plate sub-detection has  *)
(* been folded the status is unknown and the number absent.                *)
(***************************************************************************)
C15_PlateNumberOnlyWhenVisible ==
    /\ (call.fn = "analyze_rider" /\ ret.kind = "running") =>
          /\ ret.locals.lp_number # "None" => ret.locals.lp_status = "True"
          /\ PlateSubs(SubSeq(call.subs, 1, ret.k)) = {} =>
                 ret.locals.lp_status = "None" /\ ret.locals.lp_number = "None"
    /\ (call.fn = "analyze_rider" /\ Returned) =>
          /\ ret.value[3] # "None" => ret.value[2] = "True"
          /\ (call.raises \/ PlateSubs(call.subs) = {}) =>
                 ret.value[2] = "None" /\ ret.value[3] = "None"

\* A plate whose crop cannot be written: visible, with the sentinel.
C15_Witness ==
    /\ call.fn = "analyze_rider" /\ Returned /\ ~call.raises
    /\ Len(call.subs) = 2
    /\ call.subs[1].class = "Helmet"
    /\ call.subs[2].class = "LP" /\ call.subs[2].write = "raises"
    /\ ret.value[2] = "True" /\ ret.value[3] = "Detection failed"

(***************************************************************************)
(* C16: while analyze_rider folds, the passenger count starts at 0, grows  *)
(* by one for each "Helmet" or "No Helmet" sub-detection and by nothing    *)
(* for any other class, so it is the number of occupant sub-detections     *)
(* folded so far and, at the return, of all of them.                       *)
(***************************************************************************)
C16_PassengerCountFoldsOccupants ==
    /\ (call.fn = "analyze_rider" /\ ret.kind = "running") =>
          ret.locals.passenger_count = OccupantCount(SubSeq(call.subs, 1, ret.k))
    /\ (call.fn = "analyze_rider" /\ Returned) =>
          ret.value[4] = IF call.raises THEN 0 ELSE OccupantCount(call.subs)

\* Two occupants and a plate between them.
C16_Witness ==
    /\ call.fn = "analyze_rider" /\ Returned /\ ~call.raises
    /\ Len(call.subs) = 3
    /\ call.subs[1].class = "Helmet"
    /\ call.subs[2].class = "LP"
    /\ call.subs[3].class = "No Helmet"
    /\ ret.value[4] = 2

(***************************************************************************)
(* C18: each full-frame detection of class "Rider" gives exactly one rider *)
(* record in the result of the frame and every other class none, also when *)
(* the rider's region extraction or nested analysis fails.                 *)
(***************************************************************************)
C18_OneRecordPerRider ==
    FrameReturned =>
        Confidences(ret.value.items[3].items) = Confs(SelectSeq(call.dets, IsRider))

(***************************************************************************)
(* C19: a record analysed and found clean carries the explicit             *)
(* no-violation marker, never an empty tag collection: in every reachable  *)
(* state every record's violation list is non-empty, and the marker occurs *)
(* only as the sole element of a list.                                     *)
(***************************************************************************)
MarkedList(violations, marker) ==
    /\ violations # <<>>
    /\ marker \in Range(violations) => violations = <<marker>>

RECURSIVE SumDict(_)
SumDict(d) ==
    IF DOMAIN d = {} THEN 0
    ELSE LET k == CHOOSE x \in DOMAIN d : TRUE
         IN  d[k] + SumDict([x \in DOMAIN d \ {k} |-> d[x]])

\* The detections of all results of a history, in order.
RECURSIVE AllDetections(_)
AllDetections(history) ==
    IF history = <<>> THEN <<>>
    ELSE Head(history).detections \o AllDetections(Tail(history))

\* The tag lists of the records of the running script.
TagLists ==
    IF app = "guaranteed"
    THEN [i \in 1..Len(detection_history) |-> detection_history[i].violations]
    ELSE IF app = "enhanced"
    THEN LET all == AllDetections(detection_history)
         IN  [i \in 1..Len(all) |-> all[i].violations]
    ELSE [i \in 1..Len(detections) |->
              DemoViolations(detections[i].HelmetStatus,
                             detections[i].LicensePlateStatus,
                             detections[i].PassengerCount)]

Markers == {"No Violation", "No Violations"}

Breakdown ==
    IF app = "guaranteed" THEN GuaranteedBreakdown(detection_history)
    ELSE IF app = "enhanced" THEN EnhancedBreakdown(detection_history)
    ELSE DemoBreakdown(detections)

C20_BreakdownCountsRecordsPerTag ==
    app \in {"guaranteed", "enhanced", "demo"} =>
        LET lists == TagLists
            real == UNION {Range(lists[i]) : i \in 1..Len(lists)} \ Markers
            counts == Breakdown
        IN  /\ DOMAIN counts = real
            /\ \A t \in real :
                   counts[t]
                       = Cardinality({i \in 1..Len(lists) : t \in Range(lists[i])})
            /\ SumDict(counts)
                   = SumSeq([i \in 1..Len(lists) |->
                                Cardinality(Range(lists[i]) \ Markers)])

\* A record with two tags, one of them shared with another record, and a
\* clean record next to them.
C20_Witness ==
    /\ app = "guaranteed"
    /\ \E i, j, k \in 1..Len(detection_history) :
         /\ detection_history[i].violations = <<"No Helmet", "Triple Riding">>
         /\ detection_history[j].violations = <<"No Helmet">>
         /\ detection_history[k].violations = <<"No Violation">>
    /\ GuaranteedBreakdown(detection_history)["No Helmet"] = 2
    /\ GuaranteedBreakdown(detection_history)["Triple Riding"] = 1

(***************************************************************************)
(* Reading a report back: the lines of the text, without the header, each  *)
(* cut into its fields at the commas; the fine is the field under the      *)
(* header's Fine_Amount, the third.                                        *)
(***************************************************************************)
\* The pieces up to the first separator, and those after it.
UpTo(text, sep) ==
    IF \E i \in 1..Len(text) : text[i] = sep
    THEN SubSeq(text, 1, (CHOOSE i \in 1..Len(text) :
                             text[i] = sep /\ \A j \in 1..(i - 1) : text[j] # sep) - 1)
    ELSE text

RECURSIVE CutAt(_, _)
CutAt(text, sep) ==
    LET first == UpTo(text, sep)
    IN  IF Len(first) = Len(text) THEN <<first>>
        ELSE <<first>> \o CutAt(SubSeq(text, Len(first) + 2, Len(text)), sep)

\* The data lines of a report: a text ends with "\n", so the last cut is
\* empty and is no line.
ReportLines(text) ==
    LET lines == CutAt(text, "\n")
    IN  SubSeq(lines, 2, Len(lines) - 1)

ReportFields(line) ==
    LET fields == CutAt(line, ",")
    IN  [i \in 1..Len(fields) |-> Join("", fields[i])]

\* int(field): [ok, value], not ok for a field that is no number of the
\* model's range.
ToNumber(field) ==
    IF \E n \in 0..4000 : ToString(n) = field
    THEN [ok |-> TRUE, value |-> CHOOSE n \in 0..4000 : ToString(n) = field]
    ELSE [ok |-> FALSE, value |-> 0]

(***************************************************************************)
(* C24: writing the record sequence as report rows (filename, joined       *)
(* violations, fine amount, timestamp) and reading the rows back keeps the *)
(* number of records and the sum of the fine amounts, also for filenames   *)
(* that contain the field separator.                                       *)
(***************************************************************************)
C24_ReportRoundTripKeepsCountAndFines ==
    (call.fn = "report" /\ Returned /\ call.history # <<>>) =>
        LET lines == ReportLines(ret.value)
            fines == [i \in 1..Len(lines) |->
                         IF Len(ReportFields(lines[i])) >= 3
                         THEN ToNumber(ReportFields(lines[i])[3])
                         ELSE [ok |-> FALSE, value |-> 0]]
        IN  /\ Len(lines) = Len(call.history)
            /\ \A i \in 1..Len(lines) : Len(ReportFields(lines[i])) = 4
            /\ \A i \in 1..Len(fines) : fines[i].ok
            /\ SumSeq([i \in 1..Len(fines) |-> fines[i].value])
                   = SumSeq([i \in 1..Len(call.history) |->
                                call.history[i].fine_amount])

(***************************************************************************)
(* C25: the per-date breakdown counts the records grouped by the date part *)
(* of their timestamp, so the per-date counts sum to the number of records *)
(* processed, for every record sequence the chart is computed for.         *)
(***************************************************************************)
C25_PerDateCountsSumToProcessed ==
    /\ (/\ call.fn = "daily_violations" /\ Returned
        /\ EnhancedStats(call.history).total_violations > 0) =>
          /\ SumDict(ret.value) = Len(call.history)
          /\ \A d \in DOMAIN ret.value :
                 ret.value[d] = Cardinality({i \in 1..Len(call.history) :
                                    call.history[i].timestamp[1] = d})
    /\ (call.fn = "daily_counts" /\ Returned /\ Len(call.history) > 1) =>
          /\ SumDict(ret.value) = Len(call.history)
          /\ \A d \in DOMAIN ret.value :
                 ret.value[d] = Cardinality({i \in 1..Len(call.history) :
                                    call.history[i].Timestamp[1] = d})

(***************************************************************************)
(* C21: for a session with zero records (fresh, or right after a clear)    *)
(* the statistics are totalProcessed 0, totalViolations 0, totalFines 0,   *)
(* violationRate 0, and the per-type and per-date breakdowns are empty.    *)
(***************************************************************************)
ZeroStats(st) ==
    /\ st.total_processed = 0
    /\ st.total_violations = 0
    /\ st.total_fines = 0
    /\ st.violation_rate.num = 0

ImageProcessed ==
    /\ ret # Pending
    /\ Len(ret.value.items) = 3
    /\ ret.value.items[3] # PyNone

C28_DetectionsHoldComputedRiders ==
    (app = "app" /\ clicked = "detect" /\ ImageProcessed) =>
        detections = ret.value.items[3].items

(***************************************************************************)
(* C29: in app.py analysis_complete becomes True only after process_image  *)
(* succeeded on an image: when the model is not loaded or process_image    *)
(* returns its failure value, analysis_complete stays False and the        *)
(* failure is reported.                                                    *)
(***************************************************************************)
C29_CompleteOnlyAfterSuccess ==
    (app = "app" /\ clicked = "detect") =>
        /\ analysis_complete => ImageProcessed
        /\ (ret # Pending /\ ~ImageProcessed) =>
               \E i \in 1..Len(messages) :
                   messages[i] = Msg("error", "Failed to process image")

(***************************************************************************)
(* C30: every per-file result in app_enhanced's detection_history is       *)
(* consistent in itself: total_violations is the number of its detections  *)
(* whose violations are not the marker, total_fines is the sum of their    *)
(* fine_amount, and total_fines > 0 iff total_violations > 0.              *)
(***************************************************************************)
C30_ResultTotalsMatchDetections ==
    app = "enhanced" =>
        \A i \in 1..Len(detection_history) :
            LET r == detection_history[i]
            IN  /\ r.total_violations =
                       Cardinality({j \in 1..Len(r.detections) :
                           r.detections[j].violations # <<"No Violation">>})
                /\ r.total_fines =
                       SumSeq([j \in 1..Len(r.detections) |->
                                  r.detections[j].fine_amount])
                /\ (r.total_fines > 0) <=> (r.total_violations > 0)

(***************************************************************************)
(* C27: status fields fold last-seen-wins while the passenger count sums:  *)
(* after analyze_rider folded a sequence of sub-detections the helmet      *)
(* status is that of the last "Helmet" / "No Helmet" sub-detection of the  *)
(* sequence (unknown if there is none), and the passenger count is the     *)
(* number of all of them.                                                  *)
(***************************************************************************)
Occupants(subs) == {i \in 1..Len(subs) : subs[i].class \in {"Helmet", "No Helmet"}}

LastOccupant(subs) ==
    subs[CHOOSE i \in Occupants(subs) : \A j \in Occupants(subs) : j <= i]

C27_StatusLastSeenCountSums ==
    (call.fn = "analyze_rider" /\ Returned /\ ~call.raises) =>
        /\ ret.value[1] = IF Occupants(call.subs) = {} THEN "None"
                          ELSE IF LastOccupant(call.subs).class = "Helmet" THEN "True"
                          ELSE "False"
        /\ ret.value[4] = Cardinality(Occupants(call.subs))

\* Two bare heads, then a helmet: worn, three occupants.
C27_Witness ==
    /\ call.fn = "analyze_rider" /\ Returned /\ ~call.raises
    /\ Len(call.subs) = 3
    /\ call.subs[1].class = "No Helmet"
    /\ call.subs[2].class = "No Helmet"
    /\ call.subs[3].class = "Helmet"
    /\ ret.value[1] = "True"
    /\ ret.value[4] = 3


(***************************************************************************)
(* SpecRun: the button handlers of app_guaranteed.py and app_enhanced.py   *)
(* as Streamlit runs them.  A session has one script run at a time.  An    *)
(* interaction that arrives while a run is in progress marks that run      *)
(* stale; a stale run ends at the next Streamlit call it makes (st.spinner,*)
(* st.error, st.success, st.info, st.warning) and the script then runs     *)
(* again for the new interaction.  The statements between two Streamlit    *)
(* calls run without interruption.  call is the run in progress and ret    *)
(* the log of the operations that finished their change of the history.    *)
(***************************************************************************)
MaxOps == 3          \* SpecRun: operations kept in one log

RunApps == {"guaranteed", "enhanced"}

\* st.file_uploader(type=['jpg', 'jpeg', 'png', 'mp4', 'avi', 'mov'])
RunFiles ==
    { [name |-> "scene.jpg", type |-> "image/jpeg"],
      [name |-> "clip.mp4", type |-> "video/mp4"] }

IsVideo(file) == file.type = "video/mp4"

\* random draws of one generate_violation_detection call
RunDraws == { GDraw(FALSE, <<1>>), GDraw(TRUE, <<1, 2>>) }

\* draws of one "Generate Sample Data" run of app_guaranteed.py
RunBatches ==
    { [i \in 1..5 |-> GDraw(FALSE, <<1>>)],
      << GDraw(TRUE, <<1>>), GDraw(TRUE, <<1, 2>>), GDraw(FALSE, <<1>>),
         GDraw(TRUE, <<3>>), GDraw(TRUE, <<4>>) >> }

\* What process_image meets for one upload: the model works, detection
\* raises, or the weights are missing.
RunEnvs ==
    LET demo == [violate |-> TRUE, selected |-> <<"No Helmet">>, conf |-> 90]
    IN  { CalmEnv,
          [CalmEnv EXCEPT !.det_raises = TRUE, !.demo = demo],
          [CalmEnv EXCEPT !.weights = FALSE, !.demo = demo] }

Idle == [fn |-> "idle"]

Log(ops) == [kind |-> "log", ops |-> ops]

\* A stale run stopping in the middle of the sample loop.
YieldsAt_InsideLoop(script, fn, pc) == TRUE

\* Whether the statement at pc of handler fn is a Streamlit call.
YieldsAt(script, fn, pc) ==
    CASE fn = "detect" -> pc \in {"spinner", "report"}
      [] fn = "sample" -> pc = "report"
      [] fn = "clear"  -> pc = "report"
      [] OTHER -> FALSE

\* The run ends here when it is stale and this is a Streamlit call.
StopsAt(pc) == call.stale /\ YieldsAt(app, call.fn, pc)

RunInit ==
    /\ app \in RunApps
    /\ MODEL_AVAILABLE \in (IF app = "enhanced" THEN BOOLEAN ELSE {TRUE})
    /\ model_loaded = FALSE
    /\ detection_history = <<>>
    /\ detections = <<>>
    /\ analysis_complete = FALSE
    /\ messages = <<>>
    /\ clicked = "none"
    /\ origin = <<>>
    /\ call = Idle
    /\ ret = Log(<<>>)

RunRest == <<app, MODEL_AVAILABLE, detections, analysis_complete, origin>>

\* A button is clicked while no run is in progress: the script starts and
\* reaches the handler of that button.
RunClick ==
    /\ app \in RunApps
    /\ call = Idle
    /\ Len(ret.ops) < MaxOps
    /\ \/ \E file \in RunFiles :
            call' = [fn |-> "detect", pc |-> "spinner", stale |-> FALSE,
                     stale_at |-> "none", file |-> file,
                     result |-> "None", msgs |-> <<>>]
       \/ \E draws \in RunBatches :
            call' = [fn |-> "sample", pc |-> "loop", stale |-> FALSE,
                     stale_at |-> "none", k |-> 0, rows |-> <<>>,
                     draws |-> draws]
       \/ call' = [fn |-> "clear", pc |-> "assign", stale |-> FALSE,
                   stale_at |-> "none"]
    /\ clicked' = call'.fn
    /\ messages' = <<>>
    /\ UNCHANGED <<RunRest, model_loaded, detection_history, ret>>

\* Another interaction of the same session arrives while the run is in
\* progress: the run becomes stale.
RunInterrupt ==
    /\ app \in RunApps
    /\ call # Idle
    /\ ~call.stale
    /\ call' = [call EXCEPT !.stale = TRUE, !.stale_at = call.pc]
    /\ UNCHANGED <<RunRest, model_loaded, detection_history, messages,
                   clicked, ret>>

\* with st.spinner(...): app_guaranteed.py line 102, app_enhanced.py 483.
RunSpinner ==
    /\ app \in RunApps
    /\ call # Idle
    /\ call.fn = "detect"
    /\ call.pc = "spinner"
    /\ call' = IF StopsAt("spinner") THEN Idle ELSE [call EXCEPT !.pc = "work"]
    /\ UNCHANGED <<RunRest, model_loaded, detection_history, messages,
                   clicked, ret>>

\* app_guaranteed.py lines 103-107: sleep, generate the result, append it.
GuaranteedWork ==
    /\ app = "guaranteed"
    /\ call # Idle
    /\ call.fn = "detect"
    /\ call.pc = "work"
    /\ \E d \in RunDraws :
         LET result == generate_violation_detection(call.file.name, d)
         IN  /\ detection_history' = AppendResult(detection_history, result)
             /\ ret' = Log(Append(ret.ops, [op |-> "append", file |-> call.file,
                                            rows |-> <<result>>]))
             /\ call' = [call EXCEPT !.pc = "report", !.result = result]
    /\ UNCHANGED <<RunRest, model_loaded, messages, clicked>>

\* app_enhanced.py lines 484-485: process_image, then the append.  The
\* st.warning and st.error calls inside process_image come before the
\* append.
EnhancedWork ==
    /\ app = "enhanced"
    /\ call # Idle
    /\ call.fn = "detect"
    /\ call.pc = "work"
    /\ \E e \in RunEnvs :
         LET p == process_image(MODEL_AVAILABLE, model_loaded, call.file.name, e)
         IN  /\ model_loaded' = p.loaded
             /\ IF call.stale /\ p.msgs # <<>>
                THEN /\ call' = Idle
                     /\ UNCHANGED <<detection_history, ret>>
                ELSE /\ detection_history' =
                            AppendResult(detection_history, p.result)
                     /\ ret' = Log(Append(ret.ops,
                                          [op |-> "append", file |-> call.file,
                                           rows |-> <<p.result>>]))
                     /\ call' = [call EXCEPT !.pc = "report",
                                             !.result = p.result,
                                             !.msgs = p.msgs]
    /\ UNCHANGED <<RunRest, messages, clicked>>

\* One turn of the sample loop: app_guaranteed.py lines 127-130,
\* app_enhanced.py lines 505-519.  The loop body makes no Streamlit call.
\* After the last turn app_guaranteed.py goes on to st.success (line 132);
\* generate_sample_data of app_enhanced.py returns.
RunSampleTurn ==
    /\ app \in RunApps
    /\ call # Idle
    /\ call.fn = "sample"
    /\ call.pc = "loop"
    /\ IF StopsAt("loop")
       THEN /\ call' = Idle
            /\ UNCHANGED <<detection_history, ret>>
       ELSE LET k == call.k + 1
                row == IF app = "guaranteed"
                       THEN generate_violation_detection(sample_files[k],
                                                         call.draws[k])
                       ELSE SampleResult(sample_violations[k], 90)
                rows == Append(call.rows, row)
            IN  /\ detection_history' = AppendResult(detection_history, row)
                /\ IF k < 5
                   THEN /\ call' = [call EXCEPT !.k = k, !.rows = rows]
                        /\ UNCHANGED ret
                   ELSE /\ ret' = Log(Append(ret.ops,
                                             [op |-> "batch", rows |-> rows]))
                        /\ call' = IF app = "guaranteed"
                                   THEN [call EXCEPT !.k = k, !.rows = rows,
                                                     !.pc = "report"]
                                   ELSE Idle
    /\ UNCHANGED <<RunRest, model_loaded, messages, clicked>>

\* st.session_state.detection_history = []: app_guaranteed.py line 135,
\* app_enhanced.py line 297.
RunClear ==
    /\ app \in RunApps
    /\ call # Idle
    /\ call.fn = "clear"
    /\ call.pc = "assign"
    /\ detection_history' = <<>>
    /\ ret' = Log(Append(ret.ops, [op |-> "clear"]))
    /\ call' = [call EXCEPT !.pc = "report"]
    /\ UNCHANGED <<RunRest, model_loaded, messages, clicked>>

\* The message a handler shows when its work is done.
ReportMsgs ==
    CASE call.fn = "detect" ->
             IF app = "guaranteed" THEN <<GuaranteedMsg(call.result)>>
             ELSE call.msgs \o <<ResultMsg(call.result)>>
      [] call.fn = "sample" -> <<Msg("success", "Generated 5 sample detections!")>>
      [] call.fn = "clear" ->
             IF app = "guaranteed"
             THEN <<Msg("info", "All detection history cleared.")>>
             ELSE <<Msg("success", "Detection history cleared!")>>

\* The Streamlit call that ends a handler: app_guaranteed.py lines 110-113,
\* 132, 136; app_enhanced.py lines 487-490, 298.
RunReport ==
    /\ app \in RunApps
    /\ call # Idle
    /\ call.pc = "report"
    /\ messages' = IF StopsAt("report") THEN messages ELSE ReportMsgs
    /\ call' = Idle
    /\ UNCHANGED <<RunRest, model_loaded, detection_history, clicked, ret>>

NextRun ==
    \/ RunClick
    \/ RunInterrupt
    \/ RunSpinner
    \/ GuaranteedWork
    \/ EnhancedWork
    \/ RunSampleTurn
    \/ RunClear
    \/ RunReport

SpecRun == RunInit /\ [][NextRun]_vars

(***************************************************************************)
(* Claims about the handlers as Streamlit runs them.                       *)
(***************************************************************************)
\* The history after the logged operations, one after the other.
RECURSIVE Replay(_)
Replay(ops) ==
    IF ops = <<>> THEN <<>>
    ELSE LET before == Replay(SubSeq(ops, 1, Len(ops) - 1))
             last == ops[Len(ops)]
         IN  IF last.op = "clear" THEN <<>> ELSE before \o last.rows

\* The run in progress is a detection that became stale before its append.
SupersededBeforeAppend ==
    /\ call # Idle
    /\ call.fn = "detect"
    /\ call.stale_at \in {"spinner", "work"}

\* C22: the result of a detection request that was superseded before its
\* append is never appended to the history.
C22_SupersededResultNeverAppended ==
    SupersededBeforeAppend =>
        ~(/\ call.pc = "report"
          /\ detection_history # <<>>
          /\ detection_history[Len(detection_history)] = call.result)

C26_VideoNeverAppendsRecord ==
    \A i \in 1..Len(ret.ops) :
        ret.ops[i].op = "append" => ~IsVideo(ret.ops[i].file)

====
